---- MODULE Spec2Model ----
(***************************************************************************)
(* A model of the Prosody notation compiler (lexer, instrument-prefix      *)
(* resolver, event compiler), of the structured-song expander and of the   *)
(* playback scheduling of the audio engine.                                *)
(*                                                                         *)
(* Strings are sequences of one-character strings, so that lexing,         *)
(* slicing and joining are computed as the code computes them.             *)
(* Beats are counted in HALF beats: a plain token lasts 2, a dotted one 3  *)
(* (1 and 1.5 beats in the source).                                        *)
(***************************************************************************)
EXTENDS Integers, Sequences, FiniteSets, TLC

(***************************************************************************)
(* Bounds of the model.                                                    *)
(***************************************************************************)
\* number of words a generated text holds at most
MaxWords == 3
\* number of entries the song list of a generated document holds at most
MaxSong == 2
\* number of startPlayback calls made at most
MaxStarts == 2

(***************************************************************************)
(* Characters and strings.                                                 *)
(***************************************************************************)
UpperSeq == <<"A","B","C","D","E","F","G","H","I","J","K","L","M",
              "N","O","P","Q","R","S","T","U","V","W","X","Y","Z">>
LowerSeq == <<"a","b","c","d","e","f","g","h","i","j","k","l","m",
              "n","o","p","q","r","s","t","u","v","w","x","y","z">>
DigitSeq == <<"0","1","2","3","4","5","6","7","8","9">>

Range(s) == { s[i] : i \in DOMAIN s }

IsUpper(c) == c \in Range(UpperSeq)
IsLower(c) == c \in Range(LowerSeq)
IsDigit(c) == c \in Range(DigitSeq)
\* \w of a JavaScript regular expression
IsWordChar(c) == IsUpper(c) \/ IsLower(c) \/ IsDigit(c) \/ c = "_"
\* \s of a JavaScript regular expression (the characters the model uses)
IsSpace(c) == c \in {" ", "\t", "\n"}

toLowerCaseChar(c) ==
    IF IsUpper(c) THEN LowerSeq[CHOOSE i \in DOMAIN UpperSeq : UpperSeq[i] = c] ELSE c
\* toUpperCase leaving the letter as it is
KeepCase(c) == c
toUpperCaseChar(c) ==
    IF IsLower(c) THEN UpperSeq[CHOOSE i \in DOMAIN LowerSeq : LowerSeq[i] = c] ELSE c
toLowerCase(s) == [i \in DOMAIN s |-> toLowerCaseChar(s[i])]

\* parseInt(d, 10) of one digit
DigitValue(c) == (CHOOSE i \in DOMAIN DigitSeq : DigitSeq[i] = c) - 1
DigitChar(n) == DigitSeq[n + 1]

\* s.slice(from, to) with 0-based from (inclusive) and to (exclusive)
Slice(s, from, to) == IF to <= from THEN <<>> ELSE SubSeq(s, from + 1, to)

\* s.indexOf(c, from): 0-based, -1 when absent
IndexOf(s, c, from) ==
    IF \E k \in (from + 1)..Len(s) : s[k] = c
    THEN (CHOOSE k \in (from + 1)..Len(s) :
              s[k] = c /\ \A m \in (from + 1)..(k - 1) : s[m] # c) - 1
    ELSE -1

\* !s.trim(): the string holds white space only
IsBlank(s) == \A i \in DOMAIN s : IsSpace(s[i])

RECURSIVE Concat(_)
Concat(ss) == IF ss = <<>> THEN <<>> ELSE Head(ss) \o Concat(Tail(ss))

\* parts.join(sep)
RECURSIVE Join(_, _)
Join(parts, sep) ==
    IF parts = <<>> THEN <<>>
    ELSE IF Len(parts) = 1 THEN parts[1]
    ELSE parts[1] \o sep \o Join(Tail(parts), sep)

\* s.split(c) for a one-character separator
RECURSIVE SplitOn(_, _)
SplitOn(s, c) ==
    LET k == IndexOf(s, c, 0) IN
    IF k = -1 THEN <<s>>
    ELSE <<Slice(s, 0, k)>> \o SplitOn(Slice(s, k + 1, Len(s)), c)

\* s.split(/\s+/).filter(Boolean): the maximal runs of non-space characters
RECURSIVE SplitWs(_)
SplitWs(s) ==
    IF s = <<>> THEN <<>>
    ELSE IF IsSpace(s[1]) THEN SplitWs(Tail(s))
    ELSE LET n == CHOOSE k \in 1..Len(s) :
                      /\ \A m \in 1..k : ~IsSpace(s[m])
                      /\ (k = Len(s) \/ IsSpace(s[k + 1]))
         IN <<SubSeq(s, 1, n)>> \o SplitWs(SubSeq(s, n + 1, Len(s)))

SeqMax(s) == IF s = <<>> THEN 0
             ELSE CHOOSE m \in Range(s) : \A x \in Range(s) : x <= m

(***************************************************************************)
(* parser.ts: the instrument registry and the instrument prefix.           *)
(***************************************************************************)
PIANO == <<"p","i","a","n","o">>
SYNTH == <<"s","y","n","t","h">>
BASS  == <<"b","a","s","s">>
KICK  == <<"k","i","c","k">>
SNARE == <<"s","n","a","r","e">>
HIHAT == <<"h","i","h","a","t">>

\* the keys of INSTRUMENTS
INSTRUMENTS == {PIANO, SYNTH, BASS, KICK, SNARE, HIHAT}

\* `name in INSTRUMENTS` is also true of the keys a plain object inherits; of
\* those only the all-lower-case ones can equal a lower-cased name
InheritedKeys == { <<"c","o","n","s","t","r","u","c","t","o","r">>,
                   <<"_","_","p","r","o","t","o","_","_">> }
HasKey(registry, name) == name \in registry \/ name \in InheritedKeys

\* the length of the match of /^(\w+):\s*/ and of its group 1; 0 when no match
PrefixNameLen(line) ==
    IF \E k \in 1..(Len(line) - 1) :
           (\A m \in 1..k : IsWordChar(line[m])) /\ line[k + 1] = ":"
    THEN CHOOSE k \in 1..(Len(line) - 1) :
           (\A m \in 1..k : IsWordChar(line[m])) /\ line[k + 1] = ":"
    ELSE 0
PrefixMatchLen(line) ==
    LET n == PrefixNameLen(line) IN
    IF n = 0 THEN 0
    ELSE CHOOSE e \in (n + 1)..Len(line) :
             /\ \A m \in (n + 2)..e : IsSpace(line[m])
             /\ (e = Len(line) \/ ~IsSpace(line[e + 1]))

\* parseInstrumentPrefix, reading the registry it is given
parseInstrumentPrefixIn(registry, line) ==
    LET n    == PrefixNameLen(line)
        name == toLowerCase(SubSeq(line, 1, n))
        len  == PrefixMatchLen(line)
    IN IF n > 0 /\ HasKey(registry, name)
       THEN [instrument |-> name, content |-> Slice(line, len, Len(line)),
             prefixLength |-> len]
       ELSE [instrument |-> PIANO, content |-> line, prefixLength |-> 0]

parseInstrumentPrefix(line) == parseInstrumentPrefixIn(INSTRUMENTS, line)

(***************************************************************************)
(* parser.ts: parseNote and tokenize.                                      *)
(***************************************************************************)
Null == [type |-> "null"]

IsNoteLetter(c) == c \in {"A","B","C","D","E","F","G","a","b","c","d","e","f","g"}

\* NOTE_REGEX = /^([A-Ga-g])([#b]?)(\d)?(\.)?(~)?$/ : each optional group is
\* taken greedily, left to right, and the match must end at the end of raw
parseNote(raw) ==
    IF raw = <<>> \/ ~IsNoteLetter(raw[1]) THEN Null
    ELSE
      LET letter == raw[1]
          hasAcc == Len(raw) >= 2 /\ raw[2] \in {"#", "b"}
          p1     == IF hasAcc THEN 3 ELSE 2
          hasOct == Len(raw) >= p1 /\ IsDigit(raw[p1])
          p2     == IF hasOct THEN p1 + 1 ELSE p1
          hasDot == Len(raw) >= p2 /\ raw[p2] = "."
          p3     == IF hasDot THEN p2 + 1 ELSE p2
          hasTie == Len(raw) >= p3 /\ raw[p3] = "~"
          p4     == IF hasTie THEN p3 + 1 ELSE p3
          pitchClass == <<toUpperCaseChar(letter)>>
                          \o (IF hasAcc THEN <<raw[2]>> ELSE <<>>)
          octave == IF hasOct THEN DigitValue(raw[p1]) ELSE 4
      IN IF p4 # Len(raw) + 1 THEN Null
         ELSE [type |-> "note", raw |-> raw,
               note |-> pitchClass \o <<DigitChar(octave)>>,
               pitchClass |-> pitchClass, octave |-> octave,
               dotted |-> hasDot, tied |-> hasTie,
               soft |-> (letter = toLowerCaseChar(letter))]

\* the chord branch with the raw text taken without its brackets
ChordTokenInner(input, i, closeBracket) ==
    LET chordContent == Slice(input, i + 1, closeBracket)
        chordParts   == SplitWs(chordContent)
        chordNotes   == [k \in DOMAIN chordParts |-> parseNote(chordParts[k])]
        valid        == \A k \in DOMAIN chordNotes : chordNotes[k] # Null
    IN IF valid /\ Len(chordNotes) > 0
       THEN [type |-> "chord", raw |-> chordContent, notes |-> chordNotes]
       ELSE [type |-> "invalid", raw |-> chordContent]

\* the chord branch of tokenize: the token for input[i..closeBracket]
ChordToken(input, i, closeBracket) ==
    LET chordContent == Slice(input, i + 1, closeBracket)
        chordRaw     == Slice(input, i, closeBracket + 1)
        chordParts   == SplitWs(chordContent)
        chordNotes   == [k \in DOMAIN chordParts |-> parseNote(chordParts[k])]
        valid        == \A k \in DOMAIN chordNotes : chordNotes[k] # Null
    IN IF valid /\ Len(chordNotes) > 0
       THEN [type |-> "chord", raw |-> chordRaw, notes |-> chordNotes]
       ELSE [type |-> "invalid", raw |-> chordRaw]

\* the classification of a raw word: rest, hit, note or invalid
WordToken(raw) ==
    IF raw = <<"-">> \/ raw = <<"_">> THEN [type |-> "rest", raw |-> raw]
    ELSE IF raw = <<"x">> \/ raw = <<"X">> THEN [type |-> "hit", raw |-> raw]
    ELSE IF parseNote(raw) # Null THEN parseNote(raw)
    ELSE [type |-> "invalid", raw |-> raw]

\* the unterminated branch taking the text up to the next space only
UnterminatedWord(input, i) ==
    [type |-> "invalid",
     raw |-> Slice(input, i, IF IndexOf(input, " ", i) = -1 THEN Len(input)
                              ELSE IndexOf(input, " ", i))]

\* no closing bracket: input.slice(i) is one invalid token
UnterminatedToken(input, i) == [type |-> "invalid", raw |-> Slice(input, i, Len(input))]

\* the while loop of tokenize, from the 0-based position i
RECURSIVE tokenizeFrom(_, _)
tokenizeFrom(input, i) ==
    IF i >= Len(input) THEN <<>>
    ELSE IF input[i + 1] = " " THEN tokenizeFrom(input, i + 1)
    ELSE IF input[i + 1] = "["
    THEN LET closeBracket == IndexOf(input, "]", i) IN
         IF closeBracket = -1
         THEN << UnterminatedToken(input, i) >>
         ELSE <<ChordToken(input, i, closeBracket)>>
                 \o tokenizeFrom(input, closeBracket + 1)
    ELSE LET end == CHOOSE e \in (i + 1)..Len(input) :
                        /\ \A m \in (i + 1)..e : input[m] # " " /\ input[m] # "["
                        /\ (e = Len(input) \/ input[e + 1] \in {" ", "["})
         IN <<WordToken(Slice(input, i, end))>> \o tokenizeFrom(input, end)

tokenize(input) == IF IsBlank(input) THEN <<>> ELSE tokenizeFrom(input, 0)

(***************************************************************************)
(* parser.ts: parseLine and parseAllLines.                                 *)
(***************************************************************************)
\* the duration with the dot ignored
NoteDurationPlain(dotted) == 2

\* token.dotted ? 1.5 : 1, in half beats
NoteDuration(dotted) == IF dotted THEN 3 ELSE 2

\* the look-ahead with the comparison of the pitch names left out
RECURSIVE TieEndAnyPitch(_, _, _)
TieEndAnyPitch(tokens, j, note) ==
    IF j <= Len(tokens) /\ tokens[j].type = "note" /\ tokens[j].tied
    THEN TieEndAnyPitch(tokens, j + 1, note)
    ELSE j

\* the look-ahead reading the marker of the note before the one it looks at
RECURSIVE TieEndByEarlierMarker(_, _, _)
TieEndByEarlierMarker(tokens, j, note) ==
    IF j <= Len(tokens) /\ tokens[j].type = "note"
         /\ tokens[j - 1].tied /\ tokens[j].note = note
    THEN TieEndByEarlierMarker(tokens, j + 1, note)
    ELSE j

\* the look-ahead loop of parseLine: from the 1-based position j, the first
\* position that does not continue the tie chain of `note`
RECURSIVE TieEnd(_, _, _)
TieEnd(tokens, j, note) ==
    IF j <= Len(tokens) /\ tokens[j].type = "note"
         /\ tokens[j].tied /\ tokens[j].note = note
    THEN TieEnd(tokens, j + 1, note)
    ELSE j

RECURSIVE SumDurations(_, _, _)
SumDurations(tokens, from, to) ==
    IF from >= to THEN 0
    ELSE NoteDuration(tokens[from].dotted) + SumDurations(tokens, from + 1, to)

\* the duration of the event of the note token at the 1-based position i
FoldedDuration(tokens, i) ==
    NoteDuration(tokens[i].dotted)
        + SumDurations(tokens, i + 1, TieEnd(tokens, i + 1, tokens[i].note))

\* the event pushed for the token at the 1-based position i (tokenIndex i - 1)
EventOf(tokens, i, beat, lineIndex, instrument) ==
    LET token == tokens[i] IN
    CASE token.type = "hit" ->
           [notes |-> << <<"C","4">> >>, beat |-> beat, duration |-> 2,
            lineIndex |-> lineIndex, tokenIndex |-> i - 1, soft |-> FALSE,
            instrument |-> instrument]
      [] token.type = "note" ->
           [notes |-> <<token.note>>, beat |-> beat,
            duration |-> FoldedDuration(tokens, i),
            lineIndex |-> lineIndex, tokenIndex |-> i - 1, soft |-> token.soft,
            instrument |-> instrument]
      [] token.type = "chord" ->
           [notes |-> [k \in DOMAIN token.notes |-> token.notes[k].note],
            beat |-> beat,
            duration |-> NoteDuration(\E k \in DOMAIN token.notes : token.notes[k].dotted),
            lineIndex |-> lineIndex, tokenIndex |-> i - 1,
            soft |-> (\E k \in DOMAIN token.notes : token.notes[k].soft),
            instrument |-> instrument]

\* Advance with the invalid branch forgetting `beat += 1`
AdvanceInvalidFree(tokens, i) ==
    LET token == tokens[i] IN
    CASE token.type = "rest"    -> 2
      [] token.type = "hit"     -> 2
      [] token.type = "note"    -> FoldedDuration(tokens, i)
      [] token.type = "chord"   ->
           NoteDuration(\E k \in DOMAIN token.notes : token.notes[k].dotted)
      [] token.type = "invalid" -> 0

\* Advance with the note branch moving by the note's own duration only
AdvanceUnfolded(tokens, i) ==
    LET token == tokens[i] IN
    CASE token.type = "rest"    -> 2
      [] token.type = "hit"     -> 2
      [] token.type = "note"    -> NoteDuration(token.dotted)
      [] token.type = "chord"   ->
           NoteDuration(\E k \in DOMAIN token.notes : token.notes[k].dotted)
      [] token.type = "invalid" -> 2

\* how far one iteration of the for loop moves the beat cursor
Advance(tokens, i) ==
    LET token == tokens[i] IN
    CASE token.type = "rest"    -> 2
      [] token.type = "hit"     -> 2
      [] token.type = "note"    -> FoldedDuration(tokens, i)
      [] token.type = "chord"   ->
           NoteDuration(\E k \in DOMAIN token.notes : token.notes[k].dotted)
      [] token.type = "invalid" -> 2

\* the position the for loop continues at after the iteration at i
NextIndex(tokens, i) ==
    IF tokens[i].type = "note" THEN TieEnd(tokens, i + 1, tokens[i].note) ELSE i + 1

EmitsEvent(token) == token.type \in {"hit", "note", "chord"}

\* the for loop of parseLine from the 1-based position i. `steps` records, for
\* each iteration, the token visited and the cursor before and after it.
RECURSIVE parseLoop(_, _, _, _, _, _, _)
parseLoop(tokens, i, beat, events, steps, lineIndex, instrument) ==
    IF i > Len(tokens)
    THEN [events |-> events, beat |-> beat, steps |-> steps]
    ELSE parseLoop(tokens, NextIndex(tokens, i), beat + Advance(tokens, i),
                   IF EmitsEvent(tokens[i])
                   THEN Append(events, EventOf(tokens, i, beat, lineIndex, instrument))
                   ELSE events,
                   Append(steps, [tokenIndex |-> i - 1, before |-> beat,
                                  after |-> beat + Advance(tokens, i)]),
                   lineIndex, instrument)

\* parseLine, reading the registry it is given. Besides the fields the code
\* returns, the record carries the local `content`, the final value of the
\* local `beat` and the per-iteration record of the cursor.
parseLineIn(registry, line, lineIndex) ==
    LET pre    == parseInstrumentPrefixIn(registry, line)
        tokens == tokenize(pre.content)
        r      == parseLoop(tokens, 1, 0, <<>>, <<>>, lineIndex, pre.instrument)
    IN [tokens |-> tokens, events |-> r.events, instrument |-> pre.instrument,
        prefixLength |-> pre.prefixLength, content |-> pre.content,
        beat |-> r.beat, steps |-> r.steps]

parseLine(line, lineIndex) == parseLineIn(INSTRUMENTS, line, lineIndex)

\* LineEnd returning the start of the last event instead of its end
LineEndAtStart(l) ==
    IF Len(l.events) = 0 THEN 0 ELSE l.events[Len(l.events)].beat

\* the per-line value parseAllLines takes the maximum of
LineEnd(l) ==
    IF Len(l.events) = 0 THEN 0
    ELSE l.events[Len(l.events)].beat + l.events[Len(l.events)].duration

parseAllLinesIn(registry, text) ==
    LET raw   == SplitOn(text, "\n")
        lines == [i \in DOMAIN raw |-> parseLineIn(registry, raw[i], i - 1)]
    IN [lines |-> lines,
        maxBeats |-> SeqMax(<<0>> \o [i \in DOMAIN lines |-> LineEnd(lines[i])])]

parseAllLines(text) == parseAllLinesIn(INSTRUMENTS, text)

(***************************************************************************)
(* yaml-parser.ts: the structured-song expander. A document is the value   *)
(* the YAML library hands to parseYamlSong:                                *)
(*   sections : the `sections` mapping as its AST lists it, a sequence of  *)
(*              [name, items], items a sequence of [key, value] pairs in   *)
(*              document order (a repeated key is a repeated pair);        *)
(*   song     : the `song` list of entry strings;                          *)
(*   samples  : the `samples` mapping, a sequence of [name, url].          *)
(***************************************************************************)
\* the keys of a sequence of [key, ...] records, in first-seen order
RECURSIVE FirstSeen(_, _)
FirstSeen(keys, seen) ==
    IF keys = <<>> THEN <<>>
    ELSE IF Head(keys) \in seen THEN FirstSeen(Tail(keys), seen)
    ELSE <<Head(keys)>> \o FirstSeen(Tail(keys), seen \cup {Head(keys)})

RECURSIVE ValuesOf(_, _)
ValuesOf(items, key) ==
    IF items = <<>> THEN <<>>
    ELSE (IF Head(items).key = key THEN <<Head(items).value>> ELSE <<>>)
            \o ValuesOf(Tail(items), key)

\* parseSectionMap: instrument -> patterns, in insertion order
parseSectionMap(items) ==
    LET keys == FirstSeen([i \in DOMAIN items |-> items[i].key], {})
    IN [i \in DOMAIN keys |-> [key |-> keys[i], patterns |-> ValuesOf(items, keys[i])]]

\* parseSectionsFromAst: section name -> section map
parseSectionsFromAst(doc) ==
    [i \in DOMAIN doc.sections |->
        [name |-> doc.sections[i].name, map |-> parseSectionMap(doc.sections[i].items)]]

\* whether sections[sectionName] is defined
HasSection(sections, name) == \E i \in DOMAIN sections : sections[i].name = name

\* sections[sectionName], for a defined section
SectionNamed(sections, name) ==
    sections[CHOOSE i \in DOMAIN sections :
                 sections[i].name = name
                 /\ \A m \in DOMAIN sections : sections[m].name = name => m <= i].map

\* whether section.get(inst) is defined
HasInstrument(section, inst) == \E i \in DOMAIN section : section[i].key = inst

\* section.get(inst), for an instrument of the section
PatternsOf(section, inst) ==
    section[CHOOSE i \in DOMAIN section : section[i].key = inst].patterns

\* the beats of every pattern of a section, in iteration order
RECURSIVE PatternEnds(_)
PatternEnds(section) ==
    IF section = <<>> THEN <<>>
    ELSE [k \in DOMAIN Head(section).patterns |->
             LineEnd(parseLine(Head(section).key \o <<":", " ">>
                                 \o Head(section).patterns[k], 0))]
            \o PatternEnds(Tail(section))

\* getSectionBeats: the largest last-event end among the section's patterns
getSectionBeats(section) == SeqMax(<<0>> \o PatternEnds(section))

\* Math.floor in the place of Math.round
RoundDown(h) == h \div 2

\* Math.round of a number of half beats
RoundHalf(h) == (h + 1) \div 2

\* generateRests
generateRests(beats) ==
    LET count == RoundHalf(beats) IN
    IF count <= 0 THEN <<>>
    ELSE Join([i \in 1..count |-> <<"-">>], <<" ">>)

Trim(s) ==
    IF IsBlank(s) THEN <<>>
    ELSE LET a == CHOOSE i \in DOMAIN s : ~IsSpace(s[i]) /\ \A m \in 1..(i - 1) : IsSpace(s[m])
             b == CHOOSE i \in DOMAIN s : ~IsSpace(s[i]) /\ \A m \in (i + 1)..Len(s) : IsSpace(s[m])
         IN SubSeq(s, a, b)

RECURSIVE ParseInt(_)
ParseInt(ds) == IF ds = <<>> THEN 0
                ELSE 10 * ParseInt(SubSeq(ds, 1, Len(ds) - 1)) + DigitValue(ds[Len(ds)])

\* entry.match(/^(\S+)\s*[xX*](\d+)$/): the digits are the longest run of digits
\* that ends the entry, the repeat mark is the character before it, and group 1
\* is what precedes the mark less its trailing white space
RepeatMatch(entry) ==
    LET n == Len(entry)
        d == Cardinality({ k \in 1..n : \A m \in k..n : IsDigit(entry[m]) })
        q == n - d
        k == IF \E i \in 1..(q - 1) : ~IsSpace(entry[i])
             THEN CHOOSE i \in 1..(q - 1) :
                      ~IsSpace(entry[i]) /\ \A m \in (i + 1)..(q - 1) : IsSpace(entry[m])
             ELSE 0
    IN IF d >= 1 /\ q >= 2 /\ entry[q] \in {"x", "X", "*"} /\ k >= 1
            /\ \A m \in 1..k : ~IsSpace(entry[m])
       THEN [matched |-> TRUE, name |-> SubSeq(entry, 1, k),
             count |-> ParseInt(SubSeq(entry, q + 1, n))]
       ELSE [matched |-> FALSE, name |-> <<>>, count |-> 0]

RECURSIVE expandSongOrder(_)
expandSongOrder(order) ==
    IF order = <<>> THEN <<>>
    ELSE LET r == RepeatMatch(Head(order)) IN
         (IF r.matched THEN [i \in 1..r.count |-> r.name] ELSE <<Trim(Head(order))>>)
            \o expandSongOrder(Tail(order))

\* the song order restricted to the entries `if (!section) continue` lets through
RECURSIVE DefinedOnly(_, _)
DefinedOnly(sections, names) ==
    IF names = <<>> THEN <<>>
    ELSE (IF HasSection(sections, Head(names)) THEN <<Head(names)>> ELSE <<>>)
            \o DefinedOnly(sections, Tail(names))

\* s.filter(Boolean) of a list of strings
RECURSIVE NonEmpty(_)
NonEmpty(ss) ==
    IF ss = <<>> THEN <<>>
    ELSE (IF Head(ss) = <<>> THEN <<>> ELSE <<Head(ss)>>) \o NonEmpty(Tail(ss))

\* the segment a section occurrence contributes to line i (0-based) of inst
Segment(sections, sectionName, inst, i) ==
    LET section == SectionNamed(sections, sectionName) IN
    IF HasInstrument(section, inst) /\ i + 1 <= Len(PatternsOf(section, inst))
    THEN PatternsOf(section, inst)[i + 1]
    ELSE generateRests(getSectionBeats(section))

\* instMaxLines[inst] ?? 1
NumLines(sections, inst) ==
    LET counts == { Len(PatternsOf(sections[s].map, inst)) :
                      s \in { t \in DOMAIN sections : HasInstrument(sections[t].map, inst) } }
    IN IF counts = {} THEN 1
       ELSE CHOOSE m \in counts \cup {0} : \A c \in counts : c <= m

\* the keys isYamlFormat looks for
YAML_KEYS == { <<"s","e","c","t","i","o","n","s">>, <<"s","o","n","g">>, <<"b","p","m">>,
               <<"v","o","l","u","m","e","s">>,
               <<"i","n","s","t","r","u","m","e","n","t","s">>,
               <<"s","a","m","p","l","e","s">> }

\* isYamlFormat: /^(sections|song|bpm|volumes|instruments|samples)\s*:/m on the
\* trimmed input: a key at the start of a line, white space, a colon
isYamlFormat(input) ==
    LET trimmed == Trim(input) IN
    \E p \in DOMAIN trimmed :
        /\ p = 1 \/ trimmed[p - 1] = "\n"
        /\ \E key \in YAML_KEYS :
             /\ p + Len(key) <= Len(trimmed)
             /\ SubSeq(trimmed, p, p + Len(key) - 1) = key
             /\ \E q \in (p + Len(key))..Len(trimmed) :
                   /\ trimmed[q] = ":"
                   /\ \A m \in (p + Len(key))..(q - 1) : IsSpace(trimmed[m])

\* whether a section of the document repeats an instrument key
HasDuplicateKeys(doc) ==
    \E i \in DOMAIN doc.sections :
        \E x, y \in DOMAIN doc.sections[i].items :
            x # y /\ doc.sections[i].items[x].key = doc.sections[i].items[y].key

\* YAML.parse(input) throws: the input is not well-formed, or a mapping repeats
\* a key (the library's uniqueKeys check, which the call leaves on)
YAMLParseThrows(doc) == doc.shape = "error" \/ HasDuplicateKeys(doc)

\* !doc || typeof doc !== "object": a scalar is refused, a sequence is not
NotAnObject(doc) == doc.shape = "scalar"

\* whether sections[sectionName] is truthy: `sections` is a plain object, so a
\* name that Object.prototype defines reads as defined
Truthy(sections, name) == HasSection(sections, name) \/ name \in InheritedKeys

\* section.keys() throws a TypeError when sections[sectionName] is not a section
\* map but a member of Object.prototype
ThrowsOnSection(sections, names) ==
    \E k \in DOMAIN names : Truthy(sections, names[k]) /\ ~HasSection(sections, names[k])

Thrown == [status |-> "throws", text |-> <<>>, sectionNames |-> <<>>, nSampleLines |-> 0]
NullResult == [status |-> "null", text |-> <<>>, sectionNames |-> <<>>, nSampleLines |-> 0]

\* the body of parseYamlSong after the checks: the flat text and what it was
\* built from
ExpandSong(doc, sections, sectionNames) ==
    LET sampleLines == [i \in DOMAIN doc.samples |->
                           doc.samples[i].name \o <<":", " ">> \o doc.samples[i].url]
        played == DefinedOnly(sections, sectionNames)
        allInstruments ==
            FirstSeen(Concat([n \in DOMAIN played |->
                        LET sec == SectionNamed(sections, played[n])
                        IN [k \in DOMAIN sec |-> sec[k].key]]), {})
        linesOf(inst) ==
            [i \in 1..NumLines(sections, inst) |->
                inst \o <<":", " ">>
                  \o Join(NonEmpty([n \in DOMAIN played |->
                                      Segment(sections, played[n], inst, i - 1)]),
                          <<" ">>)]
        outputLines ==
            sampleLines \o Concat([k \in DOMAIN allInstruments |-> linesOf(allInstruments[k])])
    IN [status |-> "ok",
        text |-> Join(outputLines, <<"\n">>),
        sectionNames |-> sectionNames,
        nSampleLines |-> Len(sampleLines)]

\* the section names parseYamlSong walks: the expanded song, or every section
\* in document order when there is no song
SectionNamesOf(doc, sections) ==
    IF Len(doc.song) > 0 THEN expandSongOrder(doc.song)
    ELSE [i \in DOMAIN sections |-> sections[i].name]

\* parseYamlSong
parseYamlSong(doc) ==
    IF YAMLParseThrows(doc) \/ NotAnObject(doc) THEN Thrown
    ELSE IF ThrowsOnSection(parseSectionsFromAst(doc),
                            SectionNamesOf(doc, parseSectionsFromAst(doc)))
    THEN Thrown
    ELSE ExpandSong(doc, parseSectionsFromAst(doc),
                    SectionNamesOf(doc, parseSectionsFromAst(doc)))

\* try { return parseYamlSong(input) } catch { return null }
Caught(result) == IF result.status = "throws" THEN NullResult ELSE result

\* tryParseYaml
tryParseYaml(doc) ==
    IF ~isYamlFormat(doc.source) THEN NullResult ELSE Caught(parseYamlSong(doc))

\* resolveText of page.tsx: the flat text of the document, or the input itself
\* when tryParseYaml returned null
Resolved(doc, result) == IF result.status = "ok" THEN result.text ELSE doc.source

(***************************************************************************)
(* The texts the compiler is run on: up to MaxWords words, each followed   *)
(* by a space or a line break, after an optional instrument prefix.        *)
(***************************************************************************)
Words == { <<"C","4">>, <<"C","4","~">>, <<"c",".","~">>, <<"E","4">>,
           <<"C","5","~">>, <<"-">>, <<"x">>, <<"~">>,
           <<"[","C","4"," ","e","4",".","]">>, <<"[","C","4">> }
Separators == { <<" ">>, <<"\n">> }
Prefixes == { <<>>, <<"B","a","s","s",":"," ">>, <<"z","z",":"," ">>,
              <<"c","o","n","s","t","r","u","c","t","o","r",":"," ">> }

RECURSIVE WordTexts(_)
WordTexts(n) ==
    IF n = 0 THEN { <<>> }
    ELSE IF n = 1 THEN Words
    ELSE { t \o s \o w : t \in WordTexts(n - 1), s \in Separators, w \in Words }

\* the held-note line of REFERENCE.md that the words above do not spell, the
\* dotted chord followed by a rest, and bracketed spans that are no chord
ExampleTexts == { <<"E","4","~"," ","~">>,
                  <<"[","C","4","."," ","E","4"," ","G","4","]"," ","-">>,
                  <<"C","4"," ","[","]"," ","E","4">>,
                  <<"[","C","4"," ","-","]","E","4">>,
                  <<"[","x","]"," "," ","[","C","4"," ","[","e","]">> }

\* every string of the note grammar, the octave one of none, 0, 4 and 9, and
\* strings that are close to it
NoteLetters == {"A","B","C","D","E","F","G","a","b","c","d","e","f","g"}
NoteStrings ==
    { <<l>> \o acc \o oct \o dot \o tie :
        l \in NoteLetters, acc \in { <<>>, <<"#">>, <<"b">> },
        oct \in { <<>>, <<"0">>, <<"4">>, <<"9">> },
        dot \in { <<>>, <<".">> }, tie \in { <<>>, <<"~">> } }
NearNoteStrings ==
    { <<"H","4">>, <<"C","4","4">>, <<"C","#","b">>, <<"C","4","~",".">>, <<"4","C">>,
      <<"C","4",".",".">>, <<"c","~","~">>, <<"C",".","4">>, <<"#","C">>, <<"C","b","#","4">> }

Texts == { p \o t : p \in Prefixes, t \in UNION { WordTexts(n) : n \in 0..MaxWords } }
            \cup ExampleTexts \cup NoteStrings \cup NearNoteStrings

(***************************************************************************)
(* The documents the expander is run on: two sections, verse and chorus,   *)
(* each with up to two instrument entries (a repeated piano key included), *)
(* and a song of up to MaxSong entries.                                    *)
(***************************************************************************)
VERSE  == <<"v","e","r","s","e">>
CHORUS == <<"c","h","o","r","u","s">>

YPatterns == { <<"C","4"," ","E","4">>, <<"C","4"," ","-">>, <<"C","4",".">> }

ItemSeqs ==
    { <<>> }
      \cup { << [key |-> PIANO, value |-> a] >> : a \in YPatterns }
      \cup { << [key |-> PIANO, value |-> a], [key |-> BASS, value |-> b] >> :
               a \in YPatterns, b \in YPatterns }
      \cup { << [key |-> PIANO, value |-> a], [key |-> PIANO, value |-> b] >> :
               a \in YPatterns, b \in YPatterns }

CONSTRUCTOR == <<"c","o","n","s","t","r","u","c","t","o","r">>
BOX2 == <<"b","o","x","2">>

SongEntries == { VERSE, CHORUS, CHORUS \o <<" ","x","2">>, <<"o","u","t","r","o">>,
                 CONSTRUCTOR, BOX2 }

RECURSIVE SeqsUpTo(_, _)
SeqsUpTo(S, n) ==
    IF n = 0 THEN { <<>> }
    ELSE SeqsUpTo(S, n - 1)
           \cup { Append(q, x) : q \in { r \in SeqsUpTo(S, n - 1) : Len(r) = n - 1 }, x \in S }

\* the text of a document: block style, one space per level
SectionText(sec) ==
    <<" ">> \o sec.name \o <<":">>
      \o (IF sec.items = <<>> THEN <<" ","{","}","\n">>
          ELSE <<"\n">> \o Concat([k \in DOMAIN sec.items |->
                                     <<" "," ">> \o sec.items[k].key \o <<":"," ">>
                                       \o sec.items[k].value \o <<"\n">>]))

YamlText(sections, song) ==
    <<"s","e","c","t","i","o","n","s",":","\n">>
      \o Concat([i \in DOMAIN sections |-> SectionText(sections[i])])
      \o <<"s","o","n","g",":">>
      \o (IF song = <<>> THEN <<" ","[","]">>
          ELSE Concat([k \in DOMAIN song |-> <<"\n"," ","-"," ">> \o song[k]]))

\* the mappings: what YAML.parse and parseDocument read from the source
MappingDocs ==
    { [source |-> YamlText(<< [name |-> VERSE, items |-> v],
                              [name |-> CHORUS, items |-> c] >>, g),
       shape |-> "map",
       sections |-> << [name |-> VERSE, items |-> v], [name |-> CHORUS, items |-> c] >>,
       song |-> g, samples |-> <<>>] :
         v \in ItemSeqs, c \in ItemSeqs, g \in SeqsUpTo(SongEntries, MaxSong) }

\* inputs that are no mapping: flat notation; flat notation with a key that is
\* not at the start of a line; a quoted scalar, an unclosed flow sequence and a
\* flow sequence, each with a key at the start of a line
OtherDoc(source, shape) ==
    [source |-> source, shape |-> shape, sections |-> <<>>, song |-> <<>>, samples |-> <<>>]

OtherDocs ==
    { OtherDoc(<<"C","4"," ","E","4">>, "scalar"),
      OtherDoc(<<"C","4","\n"," ","s","o","n","g",":"," ","x">>, "error"),
      OtherDoc(<<"'","C","4","\n","s","o","n","g",":"," ","x","'">>, "scalar"),
      OtherDoc(<<"s","o","n","g",":"," ","[","v","e","r","s","e">>, "error"),
      OtherDoc(<<"[","\n","s","o","n","g",":"," ","x","\n","]">>, "seq") }

Docs == MappingDocs \cup OtherDocs

(***************************************************************************)
(* audio.ts: custom sample declarations. The audio module imports          *)
(* parseSampleDeclarations, registerCustomInstrument and                   *)
(* unregisterCustomInstrument from the parser; the parser among the        *)
(* sources does not define them, so they are written from the              *)
(* specification: a declaration is a line `<name>: <absolute-URL>` whose   *)
(* content is entirely a URL, and the registry gains and loses the name.   *)
(***************************************************************************)
HTTP  == <<"h","t","t","p",":","/","/">>
HTTPS == <<"h","t","t","p","s",":","/","/">>

StartsWith(s, p) == Len(s) > Len(p) /\ SubSeq(s, 1, Len(p)) = p

IsUrl(content) ==
    /\ StartsWith(content, HTTP) \/ StartsWith(content, HTTPS)
    /\ \A k \in DOMAIN content : ~IsSpace(content[k])

IsDeclaration(line) ==
    /\ PrefixNameLen(line) > 0
    /\ IsUrl(Slice(line, PrefixMatchLen(line), Len(line)))

DeclarationOf(line) ==
    [name |-> SubSeq(line, 1, PrefixNameLen(line)),
     url  |-> Slice(line, PrefixMatchLen(line), Len(line))]

\* the declarations of a text, in line order
parseSampleDeclarations(t) ==
    LET decls == SelectSeq(SplitOn(t, "\n"), IsDeclaration)
    IN [k \in DOMAIN decls |-> DeclarationOf(decls[k])]

DeclaredNames(t) ==
    { parseSampleDeclarations(t)[k].name : k \in DOMAIN parseSampleDeclarations(t) }

\* the registry after registerCustomInstrument / unregisterCustomInstrument
\* has been called for each of the names
registerCustomInstrument(custom, names) == custom \cup names
unregisterCustomInstrument(custom, names) == custom \ names

(***************************************************************************)
(* audio.ts: detectInstruments and the event lists of scheduleMusic.       *)
(***************************************************************************)
detectInstruments(registry, t) ==
    { parseInstrumentPrefixIn(registry, line).instrument :
        line \in Range(SplitOn(t, "\n")) }

MONO_INSTRUMENTS == {BASS}

\* the events of every line, in line order: the order of the two for loops
RECURSIVE AllEvents(_)
AllEvents(lines) ==
    IF lines = <<>> THEN <<>>
    ELSE Head(lines).events \o AllEvents(Tail(lines))

\* byInstrument.get(instrument)
EventsOfInstrument(events, instrument) ==
    LET Plays(e) == e.instrument = instrument IN SelectSeq(events, Plays)

\* Array.prototype.sort with (a, b) => a.event.beat - b.event.beat: stable
RECURSIVE InsertByBeat(_, _)
InsertByBeat(sorted, e) ==
    IF sorted = <<>> THEN <<e>>
    ELSE IF Head(sorted).beat <= e.beat
         THEN <<Head(sorted)>> \o InsertByBeat(Tail(sorted), e)
         ELSE <<e>> \o sorted

RECURSIVE SortByBeat(_)
SortByBeat(evList) ==
    IF evList = <<>> THEN <<>>
    ELSE InsertByBeat(SortByBeat(SubSeq(evList, 1, Len(evList) - 1)),
                      evList[Len(evList)])

\* [...new Map(evList.map((e) => [e.event.beat, e])).values()]: one entry per
\* beat, at the place of the beat's first entry, holding the beat's last entry
LastWithBeat(evList, b) ==
    evList[CHOOSE k \in DOMAIN evList :
              /\ evList[k].beat = b
              /\ \A m \in DOMAIN evList : evList[m].beat = b => m <= k]

DedupByBeat(evList) ==
    LET beats == FirstSeen([k \in DOMAIN evList |-> evList[k].beat], {})
    IN [k \in DOMAIN beats |-> LastWithBeat(evList, beats[k])]

\* partEvents deduplicating for every instrument
PartEventsDedupAlways(instrument, evList) == DedupByBeat(evList)

PartEvents(instrument, evList) ==
    IF instrument \in MONO_INSTRUMENTS THEN DedupByBeat(evList) ELSE evList

\* clearParts leaving the parts in place
KeepParts(ps) == ps

\* clearParts: every part disposed, parts = []
clearParts(ps) == <<>>

\* the parts scheduleMusic builds from c = parseAllLines(text): one per
\* instrument, in the order the instruments first appear
PartsOf(c) ==
    LET evs   == AllEvents(c.lines)
        insts == FirstSeen([k \in DOMAIN evs |-> evs[k].instrument], {})
    IN IF c.maxBeats = 0 THEN <<>>
       ELSE [k \in DOMAIN insts |->
                [instrument |-> insts[k],
                 events |-> PartEvents(insts[k],
                                SortByBeat(EventsOfInstrument(evs, insts[k])))]]

(***************************************************************************)
(* The texts playback is started on: two bass lines that meet on beat 0, a *)
(* custom channel beside a piano line, a custom channel named like the     *)
(* built-in kick with two lines that meet on beat 0, and the empty text.   *)
(***************************************************************************)
GONG  == <<"g","o","n","g">>
URL_A == HTTP \o <<"a">>

PrefixedLine(name, content) == name \o <<":", " ">> \o content

TwoBassText ==
    PrefixedLine(BASS, <<"C","2"," ","E","2">>) \o <<"\n">>
        \o PrefixedLine(BASS, <<"E","2">>)
GongText ==
    PrefixedLine(GONG, URL_A) \o <<"\n">> \o PrefixedLine(GONG, <<"C","4">>)
        \o <<"\n">> \o <<"C","4">>
KickText ==
    PrefixedLine(KICK, URL_A) \o <<"\n">> \o PrefixedLine(KICK, <<"x">>)
        \o <<"\n">> \o PrefixedLine(KICK, <<"x">>)

AudioTexts == { TwoBassText, GongText, KickText, <<>> }

\* the registries playback can meet: the built-ins and any declared names
Registries ==
    { INSTRUMENTS \cup S : S \in SUBSET UNION { DeclaredNames(t) : t \in AudioTexts } }

\* the instruments renderOffline creates in the offline context: the built-in
\* ones among instrumentsNeeded, and a player for every entry of
\* urlSampleRegistry among instrumentsNeeded
OfflineInstruments(needed, registered) ==
    [builtin |-> needed \cap INSTRUMENTS, custom |-> needed \cap registered]

\* playEventOffline: the custom player of the channel if there is one, else the
\* built-in instrument of that name if it was created, else nothing
playEventOffline(ev, inst) ==
    IF ev.instrument \in inst.custom THEN "sample"
    ELSE IF ev.instrument \in inst.builtin THEN "synth"
    ELSE "silent"

\* what renderOffline hands to transport.schedule: one callback per event of
\* every line, in line order
OfflineSchedule(lines, inst) ==
    LET evs == AllEvents(lines)
    IN [k \in DOMAIN evs |-> [instrument |-> evs[k].instrument, beat |-> evs[k].beat,
                              source |-> playEventOffline(evs[k], inst)]]

\* the early return of renderOffline with the check of maxBeats left out
RenderedUnchecked(c, needed, registered, t) ==
    [status |-> "rendered", text |-> t,
     created |-> OfflineInstruments(needed, registered),
     schedule |-> OfflineSchedule(c.lines, OfflineInstruments(needed, registered))]

\* renderOffline from c = parseAllLines(text) and needed = detectInstruments(text):
\* "Nothing to render" when maxBeats is 0, before anything is created
Rendered(c, needed, registered, t) ==
    IF c.maxBeats = 0
    THEN [status |-> "error", text |-> t,
          created |-> OfflineInstruments({}, {}), schedule |-> <<>>]
    ELSE [status |-> "rendered", text |-> t,
          created |-> OfflineInstruments(needed, registered),
          schedule |-> OfflineSchedule(c.lines, OfflineInstruments(needed, registered))]

\* the pure functions of the texts, computed once per text and registry and
\* looked up afterwards
Lookup(table, r, t) == (CHOOSE e \in table : e.registry = r /\ e.text = t).value

CompileTable ==
    { [registry |-> r, text |-> t, value |-> parseAllLinesIn(r, t)] :
        r \in Registries, t \in AudioTexts }
PartsTable ==
    { [registry |-> e.registry, text |-> e.text, value |-> PartsOf(e.value)] :
        e \in CompileTable }
DetectTable ==
    { [registry |-> r, text |-> t, value |-> detectInstruments(r, t)] :
        r \in Registries, t \in AudioTexts }
DeclarationTable ==
    { [registry |-> {}, text |-> t, value |-> Range(parseSampleDeclarations(t))] :
        t \in AudioTexts }

\* the parts scheduleMusic pushes; a part carries, besides its instrument and
\* its events, the startPlayback call its callback closure was created in
TagParts(ps, call) ==
    [k \in DOMAIN ps |->
        [instrument |-> ps[k].instrument, events |-> ps[k].events, call |-> call]]

NewParts(registry, t, call) == TagParts(Lookup(PartsTable, registry, t), call)

(***************************************************************************)
(* State.                                                                  *)
(***************************************************************************)
VARIABLES
    text,          \* the text handed to parseAllLines
    composition,   \* what parseAllLines returned
    ppc,           \* "ready", "done" (compiled), "rendered"; "off" elsewhere
    doc,           \* the document handed to parseYamlSong
    yamlResult,    \* what parseYamlSong returned
    yamlCompiled,  \* parseAllLines of the flat text
    ypc,           \* "ready", "expanded", "compiled"; "off" elsewhere
    calls,             \* the startPlayback calls: position, text, loaders, result
    customInstruments, \* the names registerCustomInstrument added to INSTRUMENTS
    urlSampleRegistry, \* name -> url of the loaded sample players
    sampler,           \* the piano sampler exists
    samplerLoaded,     \* its onload has run
    synths,            \* the instruments whose synth instance exists
    parts,             \* the armed Tone.Parts
    transport,         \* state and position of the Tone transport
    triggered,         \* what playEvent has triggered since the last stopPlayback
    processed,         \* the text last handed to loadUrlSamples
    offline,           \* what the last renderOffline scheduled
    userVolumeOffsets, \* name -> the dB offset of the user
    volume,            \* volume.value of every live instrument and player
    samplers,          \* the Tone.Samplers connected to the piano gain
    editorText,        \* page.tsx: the state `text`
    isPlaying,         \* page.tsx: the state `isPlaying`
    isLoading,         \* page.tsx: the state `isLoading`
    volumes,           \* page.tsx: the state `volumes` of the mixer
    stoppedInFlight    \* history: the calls that were suspended when the page stopped

parseVars == <<text, composition, ppc>>
yamlVars == <<doc, yamlResult, yamlCompiled, ypc>>
audioVars == <<calls, customInstruments, urlSampleRegistry, sampler, samplerLoaded,
               synths, parts, transport, triggered, processed, offline,
               userVolumeOffsets, volume, samplers>>
pageVars == <<editorText, isPlaying, isLoading, volumes, stoppedInFlight>>
vars == <<text, composition, ppc, doc, yamlResult, yamlCompiled, ypc,
          calls, customInstruments, urlSampleRegistry, sampler, samplerLoaded,
          synths, parts, transport, triggered, processed, offline,
          userVolumeOffsets, volume, samplers,
          editorText, isPlaying, isLoading, volumes, stoppedInFlight>>

NoComposition == [lines |-> <<>>, maxBeats |-> 0]
NoDoc == [source |-> <<>>, shape |-> "scalar", sections |-> <<>>, song |-> <<>>,
          samples |-> <<>>]
NoYamlResult == [status |-> "none", text |-> <<>>, sectionNames |-> <<>>,
                 nSampleLines |-> 0]

ParseOff ==
    /\ text = <<>>
    /\ composition = NoComposition
    /\ ppc = "off"

YamlOff ==
    /\ doc = NoDoc
    /\ yamlResult = NoYamlResult
    /\ yamlCompiled = NoComposition
    /\ ypc = "off"

CallIds == 1..MaxStarts

\* the argument volumeOffsets of startPlayback when it is left out
Undefined == [given |-> FALSE, value |-> <<>>]

\* a startPlayback call that was not made yet
NoCall == [pc |-> "idle", text |-> <<>>, loaders |-> {}, failed |-> {}, needed |-> {},
           volumeOffsets |-> Undefined]

\* no live instrument, no player
NoVolume == [inst |-> <<>>, player |-> <<>>]
NoSamples == <<>>
NoRender == [status |-> "none", text |-> <<>>,
             created |-> [builtin |-> {}, custom |-> {}], schedule |-> <<>>]

\* the transport of a page that has not played yet
TransportIdle == [state |-> "stopped", position |-> 0]

\* the module state of audio.ts when it is loaded
AudioIdle ==
    /\ calls = [c \in CallIds |-> NoCall]
    /\ customInstruments = {}
    /\ urlSampleRegistry = NoSamples
    /\ sampler = FALSE
    /\ samplerLoaded = FALSE
    /\ synths = {}
    /\ parts = <<>>
    /\ transport = TransportIdle
    /\ triggered = {}
    /\ processed = <<>>
    /\ offline = NoRender
    /\ userVolumeOffsets = <<>>
    /\ volume = NoVolume
    /\ samplers = 0

\* const DEFAULT_VOLUMES: every slider of the mixer at 0 dB
DEFAULT_VOLUMES == [n \in INSTRUMENTS |-> 0]

\* the page before it is mounted
PageOff ==
    /\ editorText = <<>>
    /\ isPlaying = FALSE
    /\ isLoading = FALSE
    /\ volumes = DEFAULT_VOLUMES
    /\ stoppedInFlight = {}

(***************************************************************************)
(* The compiler run on a text.                                             *)
(***************************************************************************)
InitParse ==
    /\ text \in Texts
    /\ composition = NoComposition
    /\ ppc = "ready"
    /\ YamlOff
    /\ AudioIdle
    /\ PageOff

\* const composition = parseAllLines(text)
ParseAllLinesCall ==
    /\ ppc = "ready"
    /\ composition' = parseAllLines(text)
    /\ ppc' = "done"
    /\ UNCHANGED <<text, yamlVars, audioVars, pageVars>>

\* renderOffline(text, ...) of handleDownload on a freshly loaded page: no
\* custom instrument is registered and no sample is loaded
RenderFlatText ==
    /\ ppc = "done"
    /\ offline' = Rendered(parseAllLines(text), detectInstruments(INSTRUMENTS, text),
                           {}, text)
    /\ ppc' = "rendered"
    /\ UNCHANGED <<text, composition, yamlVars, pageVars>>
    /\ UNCHANGED <<calls, customInstruments, urlSampleRegistry, sampler, samplerLoaded,
                   synths, parts, transport, triggered, processed,
                   userVolumeOffsets, volume, samplers>>

NextParse == ParseAllLinesCall \/ RenderFlatText

SpecParse == InitParse /\ [][NextParse]_vars

(***************************************************************************)
(* The expander run on a document, and the compiler on its flat text.      *)
(***************************************************************************)
InitYaml ==
    /\ doc \in Docs
    /\ yamlResult = NoYamlResult
    /\ yamlCompiled = NoComposition
    /\ ypc = "ready"
    /\ ParseOff
    /\ AudioIdle
    /\ PageOff

\* tryParseYaml(text) of page.tsx resolveText: parseYamlSong(input)
ParseYamlSongCall ==
    /\ ypc = "ready"
    /\ yamlResult' = tryParseYaml(doc)
    /\ ypc' = "expanded"
    /\ UNCHANGED <<doc, yamlCompiled, parseVars, audioVars, pageVars>>

\* the flat text compiled, as startPlayback and renderOffline do
CompileFlatText ==
    /\ ypc = "expanded"
    /\ yamlCompiled' = parseAllLines(Resolved(doc, yamlResult))
    /\ ypc' = "compiled"
    /\ UNCHANGED <<doc, yamlResult, parseVars, audioVars, pageVars>>

NextYaml == ParseYamlSongCall \/ CompileFlatText

SpecYaml == InitYaml /\ [][NextYaml]_vars

(***************************************************************************)
(* audio.ts: live playback and offline rendering. Every startPlayback call *)
(* is made with loop = false and without instrument configs, so the synths *)
(* are never disposed. Under Spec the callers leave volumeOffsets out and  *)
(* never call setInstrumentVolume; the page, under SpecPage, does both.    *)
(***************************************************************************)
InitAudio ==
    /\ AudioIdle
    /\ PageOff
    /\ ParseOff
    /\ YamlOff

Registry == INSTRUMENTS \cup customInstruments

SetCall(c, r) == [calls EXCEPT ![c] = r]

\* DEFAULT_INSTRUMENT_DB[name] ?? -8
DEFAULT_INSTRUMENT_DB(name) ==
    CASE name = PIANO -> -8
      [] name = SYNTH -> -8
      [] name = BASS  -> -12
      [] name = KICK  -> -6
      [] name = SNARE -> -7
      [] name = HIHAT -> -10
      [] OTHER        -> -8

\* userVolumeOffsets[name] ?? 0
OffsetOf(offsets, name) == IF name \in DOMAIN offsets THEN offsets[name] ELSE 0

\* applyVolume(name, inst): the value given to inst.volume.value
applyVolume(name, offsets) == DEFAULT_INSTRUMENT_DB(name) + OffsetOf(offsets, name)

\* the volumes after applyVolume on the instances of the names created
Created(vol, names, offsets) ==
    [n \in DOMAIN vol \cup names |->
        IF n \in names THEN applyVolume(n, offsets) ELSE vol[n]]

\* startPlayback(text, ...) up to `await Tone.start()`
StartPlayback(c, t, volumeOffsets) ==
    /\ calls[c].pc = "idle"
    /\ IF c = 1 THEN TRUE ELSE calls[c - 1].pc # "idle"
    /\ calls' = SetCall(c, [NoCall EXCEPT !.pc = "toneStart", !.text = t,
                                          !.volumeOffsets = volumeOffsets])
    /\ UNCHANGED <<customInstruments, urlSampleRegistry, sampler, samplerLoaded,
                   synths, parts, transport, triggered, processed, offline,
                   userVolumeOffsets, volume, samplers>>
    /\ UNCHANGED <<parseVars, yamlVars>>

\* the declarations loadUrlSamples starts a loader for: those not already
\* loaded from the same url
ToLoad(t) ==
    { d \in Lookup(DeclarationTable, {}, t) :
        ~(d.name \in DOMAIN urlSampleRegistry /\ urlSampleRegistry[d.name] = d.url) }

\* loadUrlSamples(text) up to `await Promise.all(loaders)`: the channels of the
\* sample registry that the text no longer declares are purged, stale players
\* are disposed, and every declaration to load is registered and given a loader
LoadUrlSamples(c) ==
    /\ calls[c].pc = "toneStart"
    /\ LET t      == calls[c].text
           active == { d.name : d \in Lookup(DeclarationTable, {}, t) }
           kept   == (DOMAIN urlSampleRegistry \cap active)
                        \ { d.name : d \in ToLoad(t) }
           purged == DOMAIN urlSampleRegistry \ active
       IN /\ urlSampleRegistry' = [n \in kept |-> urlSampleRegistry[n]]
          /\ customInstruments' =
                 registerCustomInstrument(
                     unregisterCustomInstrument(customInstruments, purged),
                     { d.name : d \in ToLoad(t) })
          /\ calls' = SetCall(c, [calls[c] EXCEPT !.pc = "loading",
                                                  !.loaders = ToLoad(t)])
          /\ processed' = t
          /\ volume' = [volume EXCEPT !.player = [n \in kept |-> volume.player[n]]]
    /\ UNCHANGED <<sampler, samplerLoaded, synths, parts, transport, triggered, offline,
                   userVolumeOffsets, samplers>>
    /\ UNCHANGED <<parseVars, yamlVars>>

\* onload of a Tone.Player: the player is registered and applyVolume sets its
\* volume from the offsets of that moment
LoaderOnload(c, d) ==
    /\ calls[c].pc = "loading"
    /\ d \in calls[c].loaders
    /\ urlSampleRegistry' =
           [n \in DOMAIN urlSampleRegistry \cup {d.name} |->
               IF n = d.name THEN d.url ELSE urlSampleRegistry[n]]
    /\ calls' = SetCall(c, [calls[c] EXCEPT !.loaders = @ \ {d}])
    /\ volume' = [volume EXCEPT !.player = Created(@, {d.name}, userVolumeOffsets)]
    /\ UNCHANGED <<customInstruments, sampler, samplerLoaded, synths, parts,
                   transport, triggered, processed, offline, userVolumeOffsets, samplers>>
    /\ UNCHANGED <<parseVars, yamlVars>>

\* onerror of a Tone.Player
LoaderOnerror(c, d) ==
    /\ calls[c].pc = "loading"
    /\ d \in calls[c].loaders
    /\ calls' = SetCall(c, [calls[c] EXCEPT !.loaders = @ \ {d},
                                            !.failed = @ \cup {d.name}])
    /\ UNCHANGED <<customInstruments, urlSampleRegistry, sampler, samplerLoaded,
                   synths, parts, transport, triggered, processed, offline,
                   userVolumeOffsets, volume, samplers>>
    /\ UNCHANGED <<parseVars, yamlVars>>

\* ensureSynths and ensurePercussion for the instruments needed
EnsuredSynths(needed) ==
    (IF SYNTH \in needed \/ BASS \in needed THEN {SYNTH, BASS} ELSE {})
        \cup (IF needed \cap {SNARE, KICK, HIHAT} # {}
              THEN {SNARE, KICK, HIHAT} ELSE {})

\* scheduleMusic(text, loop): clearParts, transport.cancel, the new parts
scheduleMusic(t, c) == clearParts(parts) \o NewParts(Registry, t, c)

\* const instrumentsNeeded = detectInstruments(text): computed when the call
\* resumes from loadUrlSamples, and kept across `await ensureSampler()`
instrumentsNeeded(c) ==
    IF calls[c].pc = "loading" THEN Lookup(DetectTable, Registry, calls[c].text)
    ELSE calls[c].needed

\* `if (volumeOffsets) userVolumeOffsets = { ...volumeOffsets }`, which runs
\* when the call resumes from loadUrlSamples
OffsetsAfterLoad(c) ==
    IF calls[c].pc = "loading" /\ calls[c].volumeOffsets.given
    THEN calls[c].volumeOffsets.value
    ELSE userVolumeOffsets

\* the end of startPlayback, from the ensure calls that follow the sampler,
\* each of which creates the instances that do not exist and calls applyVolume
\* on those only: transport.position = 0, scheduleMusic, transport.start(),
\* return
FinishStart(c) ==
    /\ synths' = synths \cup EnsuredSynths(instrumentsNeeded(c))
    /\ volume' = [volume EXCEPT !.inst =
                     Created(@, EnsuredSynths(instrumentsNeeded(c)) \ synths,
                             OffsetsAfterLoad(c))]
    /\ parts' = scheduleMusic(calls[c].text, c)
    /\ transport' = [state |-> "started", position |-> 0]
    /\ calls' = SetCall(c, [calls[c] EXCEPT !.pc = "done"])
    /\ UNCHANGED <<customInstruments, urlSampleRegistry, triggered, processed, offline>>

\* startPlayback resumed after an await. After `await loadUrlSamples(text)`:
\* the volume offsets, detectInstruments, then `await ensureSampler()` when the
\* text has a piano line (a new Tone.Sampler, connected to the piano gain and
\* given its volume, unless one is loaded), else the rest of the function. After `await ensureSampler()`, resolved by the onload of the
\* sampler this call created or at once by the loaded sampler: the rest.
ResumeStartPlayback(c) ==
    /\ \/ calls[c].pc = "loading" /\ calls[c].loaders = {}
       \/ calls[c].pc \in {"samplerLoading", "samplerReady"}
    /\ userVolumeOffsets' = OffsetsAfterLoad(c)
    /\ IF calls[c].pc = "loading" /\ PIANO \in instrumentsNeeded(c)
       THEN /\ calls' = SetCall(c, [calls[c] EXCEPT
                           !.pc = IF sampler /\ samplerLoaded
                                  THEN "samplerReady" ELSE "samplerLoading",
                           !.needed = instrumentsNeeded(c)])
            /\ sampler' = TRUE
            /\ samplers' = IF sampler /\ samplerLoaded THEN samplers ELSE samplers + 1
            /\ volume' = IF sampler /\ samplerLoaded THEN volume
                          ELSE [volume EXCEPT !.inst =
                                   Created(@, {PIANO}, OffsetsAfterLoad(c))]
            /\ UNCHANGED <<customInstruments, urlSampleRegistry, samplerLoaded, synths,
                           parts, transport, triggered, processed, offline>>
       ELSE /\ FinishStart(c)
            /\ samplerLoaded' = (samplerLoaded \/ calls[c].pc = "samplerLoading")
            /\ UNCHANGED <<sampler, samplers>>
    /\ UNCHANGED <<parseVars, yamlVars>>

\* onerror of the Tone.Sampler: ensureSampler rejects, startPlayback throws
SamplerOnerror(c) ==
    /\ calls[c].pc = "samplerLoading"
    /\ calls' = SetCall(c, [calls[c] EXCEPT !.pc = "rejected"])
    /\ UNCHANGED <<customInstruments, urlSampleRegistry, sampler, samplerLoaded,
                   synths, parts, transport, triggered, processed, offline,
                   userVolumeOffsets, volume, samplers>>
    /\ UNCHANGED <<parseVars, yamlVars>>

\* the events of the armed parts, each with the call of its part
Armed ==
    UNION { { [event |-> parts[k].events[j], call |-> parts[k].call] :
                j \in DOMAIN parts[k].events } : k \in DOMAIN parts }

\* playEvent: the sample player of the channel if the registry has one, else
\* the built-in instrument of that name if its instance exists, else nothing
playEvent(ev, call) ==
    IF ev.instrument \in DOMAIN urlSampleRegistry
    THEN { [instrument |-> ev.instrument, beat |-> ev.beat, source |-> "sample",
            call |-> call] }
    ELSE IF \/ ev.instrument = PIANO /\ sampler
            \/ ev.instrument \in synths
         THEN { [instrument |-> ev.instrument, beat |-> ev.beat, source |-> "synth",
                 call |-> call] }
         ELSE {}

\* the running transport reaches the next armed callback time: the callbacks of
\* that beat run. position is in half beats; a callback whose beat is below it
\* has run.
TransportAdvance ==
    /\ transport.state = "started"
    /\ \E a \in Armed : a.event.beat >= transport.position
    /\ LET due  == { a \in Armed : a.event.beat >= transport.position }
           b    == CHOOSE x \in { a.event.beat : a \in due } :
                       \A a \in due : x <= a.event.beat
       IN /\ triggered' = triggered
                 \cup UNION { playEvent(a.event, a.call) : a \in { d \in due : d.event.beat = b } }
          /\ transport' = [transport EXCEPT !.position = b + 1]
    /\ UNCHANGED <<calls, customInstruments, urlSampleRegistry, sampler, samplerLoaded,
                   synths, parts, processed, offline, userVolumeOffsets, volume, samplers>>
    /\ UNCHANGED <<parseVars, yamlVars>>

\* transport.stop() without the rewind
TransportStoppedInPlace == [state |-> "stopped", position |-> transport.position]

\* transport.stop(); transport.position = 0
TransportStopped == [state |-> "stopped", position |-> 0]

\* the startPlayback calls suspended at an await
Suspended == { c \in CallIds : calls[c].pc \in {"toneStart", "loading", "samplerLoading",
                                                 "samplerReady"} }

\* stopPlayback(): transport stopped and rewound, parts cleared, schedule
\* cancelled, every instrument and player released. Nothing is told to a
\* suspended startPlayback.
StopPlayback ==
    /\ transport' = TransportStopped
    /\ parts' = clearParts(parts)
    /\ triggered' = {}
    /\ UNCHANGED <<calls, customInstruments, urlSampleRegistry, sampler, samplerLoaded,
                   synths, processed, offline, userVolumeOffsets, volume, samplers>>
    /\ UNCHANGED <<parseVars, yamlVars>>

\* renderOffline(text, bpm, volumeOffsets, instConfigs)
RenderOffline(t) ==
    /\ offline' = Rendered(Lookup(CompileTable, Registry, t),
                           Lookup(DetectTable, Registry, t),
                           DOMAIN urlSampleRegistry, t)
    /\ UNCHANGED <<calls, customInstruments, urlSampleRegistry, sampler, samplerLoaded,
                   synths, parts, transport, triggered, processed,
                   userVolumeOffsets, volume, samplers>>
    /\ UNCHANGED <<parseVars, yamlVars>>

\* setInstrumentVolume(instrument, offsetDb): the offset is stored, and applied
\* to the built-in instance of that name if it exists, else to the player of
\* that name if there is one
SetInstrumentVolume(instrument, offsetDb) ==
    /\ userVolumeOffsets' =
           [n \in DOMAIN userVolumeOffsets \cup {instrument} |->
               IF n = instrument THEN offsetDb ELSE userVolumeOffsets[n]]
    /\ volume' =
           IF instrument \in DOMAIN volume.inst
           THEN [volume EXCEPT !.inst[instrument] =
                                   DEFAULT_INSTRUMENT_DB(instrument) + offsetDb]
           ELSE IF instrument \in DOMAIN volume.player
           THEN [volume EXCEPT !.player[instrument] =
                                   DEFAULT_INSTRUMENT_DB(instrument) + offsetDb]
           ELSE volume
    /\ UNCHANGED <<calls, customInstruments, urlSampleRegistry, sampler, samplerLoaded,
                   synths, parts, transport, triggered, processed, offline, samplers>>
    /\ UNCHANGED <<parseVars, yamlVars>>

NextAudio ==
    \/ \E c \in CallIds, t \in AudioTexts :
           StartPlayback(c, t, Undefined) /\ UNCHANGED pageVars
    \/ \E c \in CallIds : LoadUrlSamples(c) /\ UNCHANGED pageVars
    \/ \E c \in CallIds : \E d \in calls[c].loaders :
           LoaderOnload(c, d) /\ UNCHANGED pageVars
    \/ \E c \in CallIds : \E d \in calls[c].loaders :
           LoaderOnerror(c, d) /\ UNCHANGED pageVars
    \/ \E c \in CallIds : ResumeStartPlayback(c) /\ UNCHANGED pageVars
    \/ \E c \in CallIds : SamplerOnerror(c) /\ UNCHANGED pageVars
    \/ TransportAdvance /\ UNCHANGED pageVars
    \/ StopPlayback /\ UNCHANGED pageVars
    \/ \E t \in AudioTexts : RenderOffline(t) /\ UNCHANGED pageVars

Spec == InitAudio /\ [][NextAudio]_vars

(***************************************************************************)
(* page.tsx: the handlers of the page around audio.ts. A handler that      *)
(* starts with `await getAudio()` is modelled from its resumption on, the  *)
(* module being loaded. The editor holds one of two flat texts, and the    *)
(* mixer moves the bass slider.                                            *)
(***************************************************************************)
PageTexts == { TwoBassText, GongText }

\* the positions of the bass slider the user chooses from
SliderValues == { 0, 5 }

InitPage ==
    /\ AudioIdle
    /\ ParseOff
    /\ YamlOff
    /\ editorText \in PageTexts
    /\ isPlaying = FALSE
    /\ isLoading = FALSE
    /\ volumes = DEFAULT_VOLUMES
    /\ stoppedInFlight = {}

\* resolveText(text) for a text of the editor
resolveText(input) ==
    Resolved([NoDoc EXCEPT !.source = input], tryParseYaml([NoDoc EXCEPT !.source = input]))

\* handlePlay up to the await in startPlayback: setIsLoading(true), resolveText,
\* startPlayback(resolved, bpm, loop, volumes)
handlePlay(c) ==
    /\ isLoading' = TRUE
    /\ StartPlayback(c, resolveText(editorText), [given |-> TRUE, value |-> volumes])
    /\ UNCHANGED <<editorText, isPlaying, volumes, stoppedInFlight>>

\* a step of the startPlayback that handlePlay awaits; when it returns,
\* handlePlay goes on in the same task: setIsPlaying(true), setIsLoading(false)
HandlePlayResumes(c) ==
    /\ ResumeStartPlayback(c)
    /\ IF calls'[c].pc = "done"
       THEN isPlaying' = TRUE /\ isLoading' = FALSE
       ELSE UNCHANGED <<isPlaying, isLoading>>
    /\ UNCHANGED <<editorText, volumes, stoppedInFlight>>

\* startPlayback throws: handlePlay catches, setIsLoading(false)
HandlePlayCatches(c) ==
    /\ SamplerOnerror(c)
    /\ isLoading' = FALSE
    /\ UNCHANGED <<editorText, isPlaying, volumes, stoppedInFlight>>

\* handleStop: stopPlayback(), setIsPlaying(false)
handleStop ==
    /\ StopPlayback
    /\ isPlaying' = FALSE
    /\ stoppedInFlight' = stoppedInFlight \cup Suspended

\* the play/stop button of Transport.tsx: disabled while loading
OnClick(c) ==
    /\ ~isLoading
    /\ IF isPlaying
       THEN handleStop /\ UNCHANGED <<editorText, isLoading, volumes>>
       ELSE handlePlay(c)

\* handleKeyDown for Ctrl/Cmd+Enter
handleKeyDown(c) ==
    IF isPlaying
    THEN handleStop /\ UNCHANGED <<editorText, isLoading, volumes>>
    ELSE handlePlay(c)

\* handleTextChange(newText): setText, and handleStop if isPlaying
handleTextChange(newText) ==
    /\ newText # editorText
    /\ editorText' = newText
    /\ IF isPlaying
       THEN handleStop
       ELSE UNCHANGED <<isPlaying, stoppedInFlight, audioVars, parseVars, yamlVars>>
    /\ UNCHANGED <<isLoading, volumes>>

\* handleVolumeChange(instrument, value): setVolumes, and setInstrumentVolume
\* if isPlaying
handleVolumeChange(instrument, value) ==
    /\ volumes[instrument] # value
    /\ volumes' = [volumes EXCEPT ![instrument] = value]
    /\ IF isPlaying
       THEN SetInstrumentVolume(instrument, value)
       ELSE UNCHANGED <<audioVars, parseVars, yamlVars>>
    /\ UNCHANGED <<editorText, isPlaying, isLoading, stoppedInFlight>>

NextPage ==
    \/ \E c \in CallIds : OnClick(c)
    \/ \E c \in CallIds : handleKeyDown(c)
    \/ \E t \in PageTexts : handleTextChange(t)
    \/ \E v \in SliderValues : handleVolumeChange(BASS, v)
    \/ \E c \in CallIds : LoadUrlSamples(c) /\ UNCHANGED pageVars
    \/ \E c \in CallIds : \E d \in calls[c].loaders :
           LoaderOnload(c, d) /\ UNCHANGED pageVars
    \/ \E c \in CallIds : \E d \in calls[c].loaders :
           LoaderOnerror(c, d) /\ UNCHANGED pageVars
    \/ \E c \in CallIds : HandlePlayResumes(c)
    \/ \E c \in CallIds : HandlePlayCatches(c)
    \/ TransportAdvance /\ UNCHANGED pageVars

SpecPage == InitPage /\ [][NextPage]_vars

(***************************************************************************)
(* Properties of the compiler.                                             *)
(***************************************************************************)
CountOf(s, c) == Cardinality({ i \in DOMAIN s : s[i] = c })

\* the rest and invalid tokens of a line that follow the token of its last event
\* (all of them when the line has no event)
TrailingSilent(l) ==
    Cardinality({ k \in DOMAIN l.tokens :
                    /\ l.tokens[k].type \in {"rest", "invalid"}
                    /\ \A n \in DOMAIN l.events : l.events[n].tokenIndex + 1 < k })

\* last.beat + last.duration of the line's last event, 0 without events
LastEventEnd(l) ==
    IF l.events = <<>> THEN 0
    ELSE l.events[Len(l.events)].beat + l.events[Len(l.events)].duration

\* C1 as stated: for every line the final beat cursor equals the line's
\* maxBeats (the end of its last event), and for a one-line text the maxBeats
\* returned by parseAllLines equals that final cursor.
C1_CursorEqualsMaxBeats ==
    ppc = "done" =>
        /\ \A i \in DOMAIN composition.lines :
               composition.lines[i].beat = LastEventEnd(composition.lines[i])
        /\ (Len(composition.lines) = 1
               => composition.maxBeats = composition.lines[1].beat)

\* C1 amended: the final beat cursor of a line exceeds the end of the line's last
\* event (0 without events) by exactly one beat (2 half beats) for each rest or
\* invalid token after the last event's token, and the maxBeats parseAllLines
\* returns is the largest last-event end of the lines: for a one-line text, the
\* final cursor less one beat per trailing rest or invalid token.
C1_CursorIsMaxBeatsPlusTrailing ==
    ppc = "done" =>
        /\ \A i \in DOMAIN composition.lines :
               LET l == composition.lines[i] IN
               /\ l.beat = LastEventEnd(l) + 2 * TrailingSilent(l)
               /\ LastEventEnd(l) <= composition.maxBeats
        /\ (Len(composition.lines) = 1
               => composition.maxBeats
                    = composition.lines[1].beat - 2 * TrailingSilent(composition.lines[1]))
        /\ (composition.maxBeats = 0
               \/ \E i \in DOMAIN composition.lines :
                      LastEventEnd(composition.lines[i]) = composition.maxBeats)

\* a compiled one-line text whose last event is followed by a rest or invalid token
C1_Witness ==
    /\ ppc = "done"
    /\ Len(composition.lines) = 1
    /\ composition.lines[1].events # <<>>
    /\ TrailingSilent(composition.lines[1]) > 0

\* whether the token at the 1-based position k was folded into the tie chain of
\* an earlier note
Folded(l, k) ==
    \E n \in DOMAIN l.events :
        /\ l.events[n].tokenIndex + 1 < k
        /\ l.tokens[l.events[n].tokenIndex + 1].type = "note"
        /\ \A m \in (l.events[n].tokenIndex + 2)..k :
               /\ l.tokens[m].type = "note"
               /\ l.tokens[m].tied
               /\ l.tokens[m].note = l.tokens[l.events[n].tokenIndex + 1].note

\* C3: parseAllLines returns one Line per newline-separated line; every invalid
\* token (an unterminated chord included) advances the beat cursor by exactly one
\* beat and emits no event, and every other token of every line is still
\* compiled: the loop visits the tokens with a contiguous cursor, and each hit,
\* chord and note token has its event or is folded into a tie chain.
C3_InvalidTokensNeverAbort ==
    ppc = "done" =>
        /\ Len(composition.lines) = CountOf(text, "\n") + 1
        /\ \A i \in DOMAIN composition.lines :
             LET l == composition.lines[i] IN
             /\ \A k \in DOMAIN l.tokens :
                    l.tokens[k].type \in {"note", "rest", "chord", "hit", "invalid"}
             /\ \A k \in DOMAIN l.tokens :
                    l.tokens[k].type = "invalid" =>
                        /\ \E s \in DOMAIN l.steps :
                               /\ l.steps[s].tokenIndex = k - 1
                               /\ l.steps[s].after = l.steps[s].before + 2
                        /\ \A n \in DOMAIN l.events : l.events[n].tokenIndex # k - 1
             /\ \A s \in DOMAIN l.steps :
                    l.steps[s].before = IF s = 1 THEN 0 ELSE l.steps[s - 1].after
             /\ l.beat = IF l.steps = <<>> THEN 0 ELSE l.steps[Len(l.steps)].after
             /\ \A k \in DOMAIN l.tokens :
                    l.tokens[k].type \in {"hit", "chord", "note"} =>
                        \/ \E n \in DOMAIN l.events :
                               /\ l.events[n].tokenIndex = k - 1
                               /\ l.events[n].lineIndex = i - 1
                        \/ Folded(l, k)

\* a compiled two-line text whose first line holds an invalid token followed by
\* a token that produced an event, and whose second line produced an event too
C3_Witness ==
    /\ ppc = "done"
    /\ Len(composition.lines) = 2
    /\ \E k \in DOMAIN composition.lines[1].tokens :
           /\ composition.lines[1].tokens[k].type = "invalid"
           /\ \E n \in DOMAIN composition.lines[1].events :
                  composition.lines[1].events[n].tokenIndex + 1 > k
    /\ composition.lines[2].events # <<>>

\* whether a rest or invalid token lies strictly between the tokens of the
\* events n and n + 1 of the line
SilentBetween(l, n) ==
    \E k \in (l.events[n].tokenIndex + 2)..l.events[n + 1].tokenIndex :
        l.tokens[k].type \in {"rest", "invalid"}

\* C4: within a line the events are strictly ordered by beat and never overlap,
\* events[i].beat + events[i].duration <= events[i+1].beat, with equality exactly
\* when no rest or invalid token lies between the tokens of the two events.
C4_EventsOrderedNoOverlap ==
    ppc = "done" =>
        \A i \in DOMAIN composition.lines :
            LET l == composition.lines[i] IN
            \A n \in 1..(Len(l.events) - 1) :
                /\ l.events[n].beat < l.events[n + 1].beat
                /\ l.events[n].tokenIndex < l.events[n + 1].tokenIndex
                /\ l.events[n].beat + l.events[n].duration <= l.events[n + 1].beat
                /\ (l.events[n].beat + l.events[n].duration = l.events[n + 1].beat
                       <=> ~SilentBetween(l, n))

\* a compiled line with a tie chain folded into an event that the next event
\* follows without a gap
C4_Witness ==
    /\ ppc = "done"
    /\ \E i \in DOMAIN composition.lines :
         LET l == composition.lines[i] IN
         \E n \in 1..(Len(l.events) - 1) :
             /\ l.events[n + 1].tokenIndex > l.events[n].tokenIndex + 1
             /\ l.events[n].beat + l.events[n].duration = l.events[n + 1].beat

(***************************************************************************)
(* Properties of the expander.                                             *)
(***************************************************************************)
\* the final beat cursor of each pattern of a section, compiled on its own
RECURSIVE PatternSpans(_)
PatternSpans(section) ==
    IF section = <<>> THEN <<>>
    ELSE [k \in DOMAIN Head(section).patterns |->
             parseLine(Head(section).key \o <<":", " ">>
                         \o Head(section).patterns[k], 0).beat]
            \o PatternSpans(Tail(section))

\* a document whose sections are rectangular: the patterns of a section all
\* span the same whole number of beats
Rectangular(sections) ==
    \A i \in DOMAIN sections :
        \A x \in Range(PatternSpans(sections[i].map)) :
            /\ x % 2 = 0
            /\ \A y \in Range(PatternSpans(sections[i].map)) : x = y

\* the sum, over the expanded song order, of the span of each referenced section
RECURSIVE SectionSpanSum(_, _)
SectionSpanSum(sections, names) ==
    IF names = <<>> THEN 0
    ELSE (IF HasSection(sections, Head(names))
          THEN SeqMax(PatternSpans(SectionNamed(sections, Head(names)))) ELSE 0)
            + SectionSpanSum(sections, Tail(names))

\* C2: when the flat text of parseYamlSong is compiled, every emitted instrument
\* sub-line has the same total beat length, the sum over the expanded song order
\* of the beat length of each referenced section. Stated for the documents that
\* leave no doubt about a section's beat length: those whose sections are
\* rectangular.
C2_LinesAlignedToSectionSum ==
    (ypc = "compiled" /\ yamlResult.status = "ok"
       /\ Rectangular(parseSectionsFromAst(doc))) =>
        \A i \in DOMAIN yamlCompiled.lines :
            (i > yamlResult.nSampleLines /\ yamlResult.text # <<>>) =>
                yamlCompiled.lines[i].beat
                    = SectionSpanSum(parseSectionsFromAst(doc), yamlResult.sectionNames)

\* whether a line of the input starts with a recognized key, white space and a
\* colon
KeyAtLineStart(source) ==
    \E n \in DOMAIN SplitOn(source, "\n") :
        LET line == SplitOn(source, "\n")[n] IN
        \E key \in YAML_KEYS :
            /\ Len(line) > Len(key)
            /\ SubSeq(line, 1, Len(key)) = key
            /\ \E q \in (Len(key) + 1)..Len(line) :
                  /\ line[q] = ":"
                  /\ \A m \in (Len(key) + 1)..(q - 1) : line[m] = " "

\* whether a song entry names a section of the document, with or without a
\* repeat count after the name
NamesSection(d, entry) ==
    \E i \in DOMAIN d.sections :
        /\ Len(entry) >= Len(d.sections[i].name)
        /\ SubSeq(entry, 1, Len(d.sections[i].name)) = d.sections[i].name
        /\ (Len(entry) > Len(d.sections[i].name) => entry[Len(d.sections[i].name) + 1] = " ")

\* the entries of the song that name a section of the document
RECURSIVE NamingEntries(_, _)
NamingEntries(d, song) ==
    IF song = <<>> THEN <<>>
    ELSE (IF NamesSection(d, Head(song)) THEN <<Head(song)>> ELSE <<>>)
            \o NamingEntries(d, Tail(song))

\* the document with another song
WithSong(d, song) ==
    [d EXCEPT !.song = song, !.source = YamlText(d.sections, song)]

\* C13: tryParseYaml never throws; it returns null for an input with no
\* recognized key at a line start, and for a detected input that is no mapping
\* or fails to parse; a song entry that names an undefined section is skipped
\* while the other entries are expanded: the flat text is that of the same
\* document without the entry
C13_NullOrSkipNeverThrow ==
    ypc # "ready" =>
        /\ yamlResult.status \in {"ok", "null"}
        /\ ~KeyAtLineStart(doc.source) => yamlResult.status = "null"
        /\ (KeyAtLineStart(doc.source) /\ doc.shape # "map") => yamlResult.status = "null"
        /\ (/\ KeyAtLineStart(doc.source)
            /\ doc.shape = "map"
            /\ ~HasDuplicateKeys(doc)
            /\ NamingEntries(doc, doc.song) # <<>>
            /\ NamingEntries(doc, doc.song) # doc.song)
             => /\ yamlResult.status = "ok"
                /\ yamlResult.text
                     = tryParseYaml(WithSong(doc, NamingEntries(doc, doc.song))).text

\* how often a section of the document repeats the key, at most
MaxRepetition(d, key) ==
    LET counts == { Cardinality({ k \in DOMAIN d.sections[i].items :
                                    d.sections[i].items[k].key = key }) :
                      i \in DOMAIN d.sections }
    IN CHOOSE m \in counts : \A c \in counts : c <= m

\* the lines of the flat text that carry the instrument prefix
LinesOfKey(flat, key) ==
    { n \in DOMAIN SplitOn(flat, "\n") :
        LET line == SplitOn(flat, "\n")[n] IN
        /\ Len(line) > Len(key)
        /\ SubSeq(line, 1, Len(key)) = key
        /\ line[Len(key) + 1] = ":" }

\* C14: a document in which a section repeats an instrument key is accepted as
\* structured, and the flat text has, for each instrument the song plays, as
\* many lines as the largest number of repetitions of its key in a section
C14_RepeatedKeyIsParallelLines ==
    (/\ ypc # "ready"
     /\ doc.shape = "map"
     /\ HasDuplicateKeys(doc)
     /\ \A k \in DOMAIN doc.song : doc.song[k] # CONSTRUCTOR)
      => /\ yamlResult.status = "ok"
         /\ \A key \in { PIANO, BASS } :
               LinesOfKey(yamlResult.text, key) # {}
                 => Cardinality(LinesOfKey(yamlResult.text, key))
                      = MaxRepetition(doc, key)

\* whether the entry has the form `name x<N>`, `name X<N>` or `name *<N>`, the
\* name and the count separated by white space
IsRepeatForm(entry) ==
    \E sp \in 2..(Len(entry) - 2) :
        /\ entry[sp] = " "
        /\ \A m \in 1..(sp - 1) : entry[m] # " "
        /\ entry[sp + 1] \in {"x", "X", "*"}
        /\ \A m \in (sp + 2)..Len(entry) : IsDigit(entry[m])

\* the occurrences the entry stands for
OccurrencesOf(entry) ==
    IF IsRepeatForm(entry)
    THEN LET sp == CHOOSE k \in DOMAIN entry : entry[k] = " "
         IN [n \in 1..ParseInt(SubSeq(entry, sp + 2, Len(entry))) |->
                SubSeq(entry, 1, sp - 1)]
    ELSE <<entry>>

\* C15: the song entries are mapped, in order, to section names: `name x<N>`,
\* `name X<N>` and `name *<N>` to N occurrences of name, a bare section name,
\* whatever its characters, to one occurrence of that name
C15_SongOrderExpansion ==
    (ypc # "ready" /\ yamlResult.status = "ok" /\ doc.song # <<>>) =>
        yamlResult.sectionNames
          = Concat([k \in DOMAIN doc.song |-> OccurrencesOf(doc.song[k])])

\* the beat length of a section: maxBeats of its patterns compiled together,
\* one line per pattern, in half beats
SectionLength(sec) ==
    IF sec.items = <<>> THEN 0
    ELSE parseAllLines(Join([k \in DOMAIN sec.items |->
                               sec.items[k].key \o <<":", " ">> \o sec.items[k].value],
                            <<"\n">>)).maxBeats

\* the patterns a section has for the key, in order
RECURSIVE ItemsOfKey(_, _)
ItemsOfKey(items, key) ==
    IF items = <<>> THEN <<>>
    ELSE (IF Head(items).key = key THEN <<Head(items).value>> ELSE <<>>)
            \o ItemsOfKey(Tail(items), key)

\* the rest tokens sub-line i of the key receives from one occurrence of the
\* section, the padding being `pad` of the section's length
RestsFrom(sec, key, i, pad) ==
    IF i <= Len(ItemsOfKey(sec.items, key))
    THEN CountOf(ItemsOfKey(sec.items, key)[i], "-")
    ELSE pad

\* the section of the document with the name
SectionOf(d, name) == d.sections[CHOOSE i \in DOMAIN d.sections : d.sections[i].name = name]

\* the played occurrences: the expanded names that are sections of the document
RECURSIVE Played(_, _)
Played(d, names) ==
    IF names = <<>> THEN <<>>
    ELSE (IF \E i \in DOMAIN d.sections : d.sections[i].name = Head(names)
          THEN <<Head(names)>> ELSE <<>>) \o Played(d, Tail(names))

RECURSIVE SumSeq(_)
SumSeq(q) == IF q = <<>> THEN 0 ELSE Head(q) + SumSeq(Tail(q))

\* the number of rest tokens of line n of the compiled flat text
RestTokens(n) ==
    Cardinality({ k \in DOMAIN yamlCompiled.lines[n].tokens :
                    yamlCompiled.lines[n].tokens[k].type = "rest" })

\* the sub-line of its instrument that line n of the compiled flat text is
SubLine(n) ==
    Cardinality({ m \in 1..n :
                    yamlCompiled.lines[m].instrument = yamlCompiled.lines[n].instrument })

\* a number of half beats rounded to whole beats, halves upwards
NearestBeat(h) == IF h % 2 = 0 THEN h \div 2 ELSE (h + 1) \div 2

InFlight(c) == calls[c].pc \in {"toneStart", "loading", "samplerLoading", "samplerReady"}

\* the positions of the callbacks of the parts ps: part k, event j
PositionsOf(ps) ==
    UNION { { <<k, j>> : j \in DOMAIN ps[k].events } : k \in DOMAIN ps }

C6_StopLeavesNothingArmed ==
    [][StopPlayback =>
          /\ parts' = <<>>
          /\ transport'.state = "stopped" /\ transport'.position = 0
          /\ triggered' \subseteq triggered]_vars

\* playback of a text with events was started, ran past its first callbacks,
\* and was stopped
C6_Witness ==
    /\ \E c \in CallIds : calls[c].pc = "done" /\ calls[c].text = TwoBassText
    /\ \A c \in CallIds : calls[c].pc \in {"done", "idle"} /\ calls[c].text \in {TwoBassText, <<>>}
    /\ transport.state = "stopped"
    /\ parts = <<>>

\* the callbacks of the parts ps are, one to one, the events of the compile c
\* armed by one call, the events of a monophonic instrument counted once per beat
CallbacksMatch(ps, c, call) ==
    /\ \A p \in PositionsOf(ps) :
           /\ ps[p[1]].call = call
           /\ ps[p[1]].events[p[2]] \in Range(AllEvents(c.lines))
    /\ \A e \in Range(AllEvents(c.lines)) :
           IF e.instrument \in MONO_INSTRUMENTS
           THEN Cardinality({ p \in PositionsOf(ps) :
                                /\ ps[p[1]].events[p[2]].instrument = e.instrument
                                /\ ps[p[1]].events[p[2]].beat = e.beat }) = 1
           ELSE Cardinality({ p \in PositionsOf(ps) : ps[p[1]].events[p[2]] = e }) = 1

\* C7: when startPlayback(text, ...) completes, the armed callbacks correspond
\* one to one to the events of parseAllLines(text), each at its event's beat,
\* apart from the same-beat events merged on a monophonic instrument, and none
\* belongs to an earlier text.
C7_StartArmsOneCallbackPerEvent ==
    [][\A c \in CallIds :
          (calls[c].pc # "done" /\ calls'[c].pc = "done") =>
              CallbacksMatch(parts', Lookup(CompileTable, Registry, calls[c].text), c)]_vars

\* a second call, on a text with two same-beat events of a polyphonic channel,
\* completed after a first call on another text that had callbacks armed
C7_Witness ==
    /\ calls[1].pc = "done" /\ calls[1].text = TwoBassText
    /\ calls[2].pc = "done" /\ calls[2].text = KickText
    /\ parts # <<>> /\ parts[1].call = 2
    /\ Cardinality(PositionsOf(parts)) = 2

\* C8: no event of a channel whose sample failed to load in a startPlayback call
\* triggers any sound in the session that call armed.
C8_FailedChannelSilent ==
    \A s \in triggered : s.instrument \notin calls[s.call].failed

\* the text of the startPlayback call made last
LastStartedText ==
    IF calls[1].pc = "idle" THEN <<>>
    ELSE calls[CHOOSE c \in CallIds :
                  /\ calls[c].pc # "idle"
                  /\ \A d \in CallIds : calls[d].pc # "idle" => d <= c].text

\* C9: once no startPlayback call is in flight, the custom channel names in the
\* instrument registry are the names declared in the most recently processed
\* text: the text of the call made last, which is also the text handed to
\* loadUrlSamples last.
C9_RegistryMatchesDeclared ==
    (/\ \A c \in CallIds : ~InFlight(c)
     /\ processed = LastStartedText)
        => customInstruments = DeclaredNames(processed)

\* C10: the triggers handed to a monophonic instrument are at most one per beat,
\* in strictly increasing time, both in the parts scheduleMusic arms and in the
\* schedule renderOffline builds.
C10_MonoOneTriggerPerBeat ==
    /\ \A k \in DOMAIN parts :
           parts[k].instrument \in MONO_INSTRUMENTS =>
               \A i, j \in DOMAIN parts[k].events :
                   i < j => parts[k].events[i].beat < parts[k].events[j].beat
    /\ \A i, j \in DOMAIN offline.schedule :
           (/\ i < j
            /\ offline.schedule[i].instrument \in MONO_INSTRUMENTS
            /\ offline.schedule[j].instrument = offline.schedule[i].instrument)
               => offline.schedule[i].beat # offline.schedule[j].beat


\* C11: two renderOffline calls with the same text create the same instruments
\* and schedule the same triggers, whatever live operations ran before or
\* between them: a render of the text rendered last leaves the result as it was
C11_OfflineRenderDeterministic ==
    [][(offline.status # "none" /\ offline'.text = offline.text)
          => offline' = offline]_vars


\* C12: renderOffline fails with "Nothing to render", with no instrument
\* created and nothing scheduled, exactly when no line of the text has an
\* event; a text with an event is rendered and schedules something
C12_NothingToRenderIffNoEvent ==
    ppc = "rendered" =>
        /\ offline.status = "error"
             <=> \A l \in DOMAIN composition.lines : composition.lines[l].events = <<>>
        /\ offline.status = "error"
             => /\ offline.created = [builtin |-> {}, custom |-> {}]
                /\ offline.schedule = <<>>
        /\ offline.status # "error"
             => /\ offline.status = "rendered"
                /\ offline.schedule # <<>>

\* a text of rests and invalid tokens only was refused
C12_Witness ==
    /\ ppc = "rendered"
    /\ offline.status = "error"
    /\ \E l \in DOMAIN composition.lines :
          \E k \in DOMAIN composition.lines[l].tokens :
              composition.lines[l].tokens[k].type = "invalid"


(***************************************************************************)
(* Properties of held notes.                                               *)
(***************************************************************************)
\* the events of a line as notes, beat and duration, in half beats
Shape(events) ==
    [n \in DOMAIN events |->
        [notes |-> events[n].notes, beat |-> events[n].beat,
         duration |-> events[n].duration]]

\* C16: the line `C4~ ~ E4` compiles to exactly two events, C4 at beat 0 held
\* for 3 beats and E4 at beat 3 for 1 beat
C16_HeldNoteThenNote ==
    (ppc = "done" /\ text = <<"C","4","~"," ","~"," ","E","4">>) =>
        Shape(composition.lines[1].events)
          = << [notes |-> << <<"C","4">> >>, beat |-> 0, duration |-> 6],
               [notes |-> << <<"E","4">> >>, beat |-> 6, duration |-> 2] >>

\* whether the token at the 1-based position k is a bare `~`
IsBareTie(tokens, k) == k \in DOMAIN tokens /\ tokens[k].raw = <<"~">>

\* the number of bare `~` tokens that follow the position p without a break
Continuations(tokens, p) ==
    Cardinality({ k \in (p + 1)..Len(tokens) :
                    \A m \in (p + 1)..k : IsBareTie(tokens, m) })

\* C17: a note written with the tie marker and followed by k bare `~` tokens is
\* one event, each `~` adding one beat to the note's own duration, and the `~`
\* tokens take no further time: `C4~ ~ ~` is one C4 event of 3 beats and
\* `E4~ ~` one E4 event of 2 beats
C17_BareTieContinuesNote ==
    ppc = "done" =>
        \A i \in DOMAIN composition.lines :
            LET l == composition.lines[i] IN
            \A p \in DOMAIN l.tokens :
                (l.tokens[p].type = "note" /\ l.tokens[p].tied
                   /\ Continuations(l.tokens, p) >= 1)
                  => \E n \in DOMAIN l.events :
                        /\ l.events[n].tokenIndex = p - 1
                        /\ l.events[n].duration
                             = NoteDuration(l.tokens[p].dotted)
                                 + 2 * Continuations(l.tokens, p)

\* whether the token at the 1-based position p is a note that continues the
\* chain of the note before it: marked tied, with the same pitch name
Continues(tokens, p) ==
    /\ p > 1
    /\ p <= Len(tokens)
    /\ tokens[p].type = "note"
    /\ tokens[p].tied
    /\ tokens[p - 1].type = "note"
    /\ tokens[p - 1].note = tokens[p].note

\* the last position of the chain that starts at p
ChainLast(tokens, p) ==
    p + Cardinality({ k \in (p + 1)..Len(tokens) :
                        \A m \in (p + 1)..k : Continues(tokens, m) })

RECURSIVE OwnDurations(_, _, _)
OwnDurations(tokens, from, to) ==
    IF from > to THEN 0
    ELSE (IF tokens[from].dotted THEN 3 ELSE 2) + OwnDurations(tokens, from + 1, to)

\* C18: a note token followed by j >= 0 note tokens that are each marked tied
\* and have the pitch name of the note that started the chain yields exactly one
\* event, at the first note's beat and tokenIndex, whose duration is the sum of
\* the members' own durations; the members yield no event of their own, and the
\* token after the chain is processed next, at the advanced cursor
C18_TieChainIsOneEvent ==
    ppc = "done" =>
        \A i \in DOMAIN composition.lines :
            LET l == composition.lines[i] IN
            \A p \in DOMAIN l.tokens :
                l.tokens[p].type = "note" =>
                    IF Continues(l.tokens, p)
                    THEN /\ \A n \in DOMAIN l.events : l.events[n].tokenIndex # p - 1
                         /\ \A s \in DOMAIN l.steps : l.steps[s].tokenIndex # p - 1
                    ELSE /\ Cardinality({ n \in DOMAIN l.events :
                                            l.events[n].tokenIndex = p - 1 }) = 1
                         /\ \A n \in DOMAIN l.events :
                              l.events[n].tokenIndex = p - 1 =>
                                /\ l.events[n].notes = <<l.tokens[p].note>>
                                /\ l.events[n].duration
                                     = OwnDurations(l.tokens, p, ChainLast(l.tokens, p))
                                /\ \E s \in DOMAIN l.steps :
                                     /\ l.steps[s].tokenIndex = p - 1
                                     /\ l.steps[s].before = l.events[n].beat
                                     /\ l.steps[s].after
                                          = l.events[n].beat + l.events[n].duration
                                     /\ IF ChainLast(l.tokens, p) < Len(l.tokens)
                                        THEN /\ s < Len(l.steps)
                                             /\ l.steps[s + 1].tokenIndex
                                                  = ChainLast(l.tokens, p)
                                             /\ l.steps[s + 1].before = l.steps[s].after
                                        ELSE s = Len(l.steps)

\* a compiled line in which a chain of two members, one of them dotted, is
\* ended by a tied note of another octave, which starts an event of its own
C18_Witness ==
    /\ ppc = "done"
    /\ \E i \in DOMAIN composition.lines :
         LET l == composition.lines[i] IN
         \E p \in DOMAIN l.tokens :
             /\ l.tokens[p].type = "note"
             /\ ~Continues(l.tokens, p)
             /\ ChainLast(l.tokens, p) = p + 1
             /\ l.tokens[p + 1].dotted
             /\ p + 2 <= Len(l.tokens)
             /\ l.tokens[p + 2].type = "note"
             /\ l.tokens[p + 2].tied
             /\ l.tokens[p + 2].pitchClass = l.tokens[p].pitchClass
             /\ l.tokens[p + 2].octave # l.tokens[p].octave
             /\ \E n \in DOMAIN l.events : l.events[n].tokenIndex = p + 1

\* whether p and p + 1 are notes of the same pitch name, p starting a chain and
\* nothing after p + 1 continuing it
SamePitchPair(tokens, p) ==
    /\ p + 1 <= Len(tokens)
    /\ tokens[p].type = "note"
    /\ tokens[p + 1].type = "note"
    /\ tokens[p].note = tokens[p + 1].note
    /\ ~Continues(tokens, p)
    /\ ~Continues(tokens, p + 2)

\* the events of the line whose token is at the 1-based position p
EventsAt(l, p) == { n \in DOMAIN l.events : l.events[n].tokenIndex = p - 1 }

\* C19 as stated: of two adjacent notes of the same pitch of which the first
\* carries `~` and the second carries no marker, parseLine makes one event whose
\* duration is the sum of the two durations
C19_MarkerOnFirstNoteMerges ==
    ppc = "done" =>
        \A i \in DOMAIN composition.lines :
            LET l == composition.lines[i] IN
            \A p \in DOMAIN l.tokens :
                (SamePitchPair(l.tokens, p) /\ l.tokens[p].tied /\ ~l.tokens[p + 1].tied)
                  => /\ EventsAt(l, p + 1) = {}
                     /\ \A n \in EventsAt(l, p) :
                            l.events[n].duration = OwnDurations(l.tokens, p, p + 1)

\* C19: of two adjacent notes of the same pitch, the second is merged into the
\* first exactly when the second carries `~`, whether or not the first does:
\* then there is one event with the sum of the two durations, otherwise each
\* note has an event with its own duration
C19_MarkerOnFollowingNoteMerges ==
    ppc = "done" =>
        \A i \in DOMAIN composition.lines :
            LET l == composition.lines[i] IN
            \A p \in DOMAIN l.tokens :
                SamePitchPair(l.tokens, p) =>
                    IF l.tokens[p + 1].tied
                    THEN /\ EventsAt(l, p + 1) = {}
                         /\ Cardinality(EventsAt(l, p)) = 1
                         /\ \A n \in EventsAt(l, p) :
                                l.events[n].duration = OwnDurations(l.tokens, p, p + 1)
                    ELSE /\ Cardinality(EventsAt(l, p)) = 1
                         /\ Cardinality(EventsAt(l, p + 1)) = 1
                         /\ \A n \in EventsAt(l, p) :
                                l.events[n].duration = OwnDurations(l.tokens, p, p)
                         /\ \A n \in EventsAt(l, p + 1) :
                                l.events[n].duration = OwnDurations(l.tokens, p + 1, p + 1)

\* a compiled line in which a note carrying `~` is followed by an unmarked note
\* of the same pitch
C19_Witness ==
    /\ ppc = "done"
    /\ \E i \in DOMAIN composition.lines :
         LET l == composition.lines[i] IN
         \E p \in DOMAIN l.tokens :
             /\ SamePitchPair(l.tokens, p)
             /\ l.tokens[p].tied
             /\ ~l.tokens[p + 1].tied
             /\ Cardinality(EventsAt(l, p + 1)) = 1


(***************************************************************************)
(* Properties of chords, brackets, notes, prefixes and tokens.             *)
(***************************************************************************)
\* the step of the for loop that visited the token at the 1-based position p
StepsAt(l, p) == { n \in DOMAIN l.steps : l.steps[n].tokenIndex = p - 1 }

DottedChordText == <<"[","C","4","."," ","E","4"," ","G","4","]"," ","-">>

\* C21: a chord token compiles to exactly one event with the member pitch names
\* in written order, lasting 1.5 beats if a member is dotted and 1 beat
\* otherwise, soft iff a member is soft; it is never folded into a chain and
\* folds nothing, and a rest after it moves the cursor by one beat without an
\* event: `[C4. E4 G4] -` is one event at beat 0 of 1.5 beats, final cursor 2.5
C21_ChordIsOneEvent ==
    ppc = "done" =>
        /\ \A i \in DOMAIN composition.lines :
             LET l == composition.lines[i] IN
             \A p \in DOMAIN l.tokens :
                 l.tokens[p].type = "chord" =>
                     /\ Cardinality(EventsAt(l, p)) = 1
                     /\ Cardinality(StepsAt(l, p)) = 1
                     /\ \A n \in EventsAt(l, p) : \A st \in StepsAt(l, p) :
                          /\ Len(l.events[n].notes) = Len(l.tokens[p].notes)
                          /\ \A k \in DOMAIN l.tokens[p].notes :
                                 l.events[n].notes[k] = l.tokens[p].notes[k].note
                          /\ l.events[n].duration
                               = (IF \E k \in DOMAIN l.tokens[p].notes :
                                        l.tokens[p].notes[k].dotted THEN 3 ELSE 2)
                          /\ l.events[n].soft
                               = (\E k \in DOMAIN l.tokens[p].notes : l.tokens[p].notes[k].soft)
                          /\ l.steps[st].before = l.events[n].beat
                          /\ l.steps[st].after = l.events[n].beat + l.events[n].duration
                     /\ p < Len(l.tokens) => Cardinality(StepsAt(l, p + 1)) = 1
                     /\ (p < Len(l.tokens) /\ l.tokens[p + 1].type = "rest")
                          => /\ EventsAt(l, p + 1) = {}
                             /\ \A st \in StepsAt(l, p + 1) :
                                    l.steps[st].after = l.steps[st].before + 2
        /\ text = DottedChordText =>
             /\ Shape(composition.lines[1].events)
                  = << [notes |-> << <<"C","4">>, <<"E","4">>, <<"G","4">> >>,
                        beat |-> 0, duration |-> 3] >>
             /\ composition.lines[1].beat = 5

\* the dotted chord followed by a rest, compiled
C21_Witness ==
    /\ ppc = "done"
    /\ text = DottedChordText
    /\ composition.lines[1].tokens[1].type = "chord"
    /\ composition.lines[1].beat = 5

\* whether the string matches the note grammar: a letter, then optionally an
\* accidental, a digit, a dot and a tie marker, in this order
NoteForms(raw) ==
    { f \in [letter : NoteLetters, acc : { <<>>, <<"#">>, <<"b">> },
             oct : { <<>> } \cup { <<DigitSeq[d]>> : d \in DOMAIN DigitSeq },
             dot : { <<>>, <<".">> }, tie : { <<>>, <<"~">> }] :
        raw = <<f.letter>> \o f.acc \o f.oct \o f.dot \o f.tie }
IsNoteString(raw) == NoteForms(raw) # {}

LowerNoteLetters == <<"a","b","c","d","e","f","g">>
UpperNoteLetters == <<"A","B","C","D","E","F","G">>
UpperOf(letter) ==
    IF \E k \in 1..7 : LowerNoteLetters[k] = letter
    THEN UpperNoteLetters[CHOOSE k \in 1..7 : LowerNoteLetters[k] = letter]
    ELSE letter

\* whether the text is a single word: no separator, bracket or prefix
SingleWord(t) ==
    /\ t # <<>>
    /\ \A k \in DOMAIN t : t[k] \notin {" ", "\n", "[", "]", ":"}

\* C23: for every string of the note grammar parseNote returns the upper-cased
\* letter plus the accidental as pitch class, the written digit or 4 as octave,
\* note = pitchClass + octave, soft iff the letter is lower case, dotted and
\* tied iff `.` and `~` are written, and the raw form regenerated from pitch
\* class and octave parses to the same pitch and octave; every other string
\* yields null, so the word is no note token
C23_ParseNoteGrammar ==
    (ppc = "done" /\ SingleWord(text)) =>
        LET tok == composition.lines[1].tokens[1] IN
        IF IsNoteString(text)
        THEN \A f \in NoteForms(text) :
               /\ tok.type = "note"
               /\ tok.raw = text
               /\ tok.pitchClass = <<UpperOf(f.letter)>> \o f.acc
               /\ tok.octave = (IF f.oct = <<>> THEN 4 ELSE DigitValue(f.oct[1]))
               /\ tok.note = <<UpperOf(f.letter)>> \o f.acc
                               \o (IF f.oct = <<>> THEN <<"4">> ELSE f.oct)
               /\ tok.soft = (f.letter \in Range(LowerNoteLetters))
               /\ tok.dotted = (f.dot # <<>>)
               /\ tok.tied = (f.tie # <<>>)
               /\ parseNote(tok.pitchClass \o <<DigitChar(tok.octave)>>).note = tok.note
               /\ parseNote(tok.pitchClass \o <<DigitChar(tok.octave)>>).pitchClass
                    = tok.pitchClass
               /\ parseNote(tok.pitchClass \o <<DigitChar(tok.octave)>>).octave = tok.octave
        ELSE /\ tok.type # "note"
             /\ parseNote(text) = Null

\* the soft dotted tied B flat without an octave, parsed
C23_Witness ==
    /\ ppc = "done"
    /\ text = <<"b","b",".","~">>
    /\ composition.lines[1].tokens[1].note = <<"B","b","4">>
    /\ composition.lines[1].tokens[1].soft

\* the first `[` of the content that no `]` follows, 0 when there is none
OpenBracket(c) ==
    IF \E k \in DOMAIN c : c[k] = "[" /\ \A m \in (k + 1)..Len(c) : c[m] # "]"
    THEN CHOOSE k \in DOMAIN c :
             /\ c[k] = "[" /\ \A m \in (k + 1)..Len(c) : c[m] # "]"
             /\ \A j \in 1..(k - 1) : ~(c[j] = "[" /\ \A m \in (j + 1)..Len(c) : c[m] # "]")
    ELSE 0

\* whether the raw text is a bracketed span
IsSpan(raw) == Len(raw) >= 2 /\ raw[1] = "[" /\ raw[Len(raw)] = "]"

\* whether the span holds at least one part and only valid notes
IsChordSpan(raw) ==
    /\ SplitWs(SubSeq(raw, 2, Len(raw) - 1)) # <<>>
    /\ \A k \in DOMAIN SplitWs(SubSeq(raw, 2, Len(raw) - 1)) :
           IsNoteString(SplitWs(SubSeq(raw, 2, Len(raw) - 1))[k])

\* C22: a `[` with no `]` after it on the line makes tokenize emit exactly one
\* invalid token whose raw text is the rest of the content from that `[`; the
\* tokens before it are those of the content before it, nothing is lexed after
\* it, and it takes one beat. A bracketed span that is empty or holds a part
\* that is no valid note is one invalid token covering the span.
C22_UnterminatedAndInvalidSpans ==
    ppc = "done" =>
        \A i \in DOMAIN composition.lines :
            LET l == composition.lines[i] IN
            /\ OpenBracket(l.content) > 0 =>
                 /\ l.tokens # <<>>
                 /\ l.tokens[Len(l.tokens)]
                      = [type |-> "invalid",
                         raw |-> SubSeq(l.content, OpenBracket(l.content), Len(l.content))]
                 /\ SubSeq(l.tokens, 1, Len(l.tokens) - 1)
                      = tokenize(SubSeq(l.content, 1, OpenBracket(l.content) - 1))
                 /\ EventsAt(l, Len(l.tokens)) = {}
                 /\ \A st \in StepsAt(l, Len(l.tokens)) :
                        /\ st = Len(l.steps)
                        /\ l.steps[st].after = l.steps[st].before + 2
                 /\ StepsAt(l, Len(l.tokens)) # {}
            /\ \A p \in DOMAIN l.tokens :
                 /\ IsSpan(l.tokens[p].raw) =>
                      l.tokens[p].type = (IF IsChordSpan(l.tokens[p].raw)
                                          THEN "chord" ELSE "invalid")
                 /\ l.tokens[p].type = "chord" => IsSpan(l.tokens[p].raw)

\* a compiled line whose last token is an unterminated chord that holds a space
\* and follows another token
C22_Witness ==
    /\ ppc = "done"
    /\ \E i \in DOMAIN composition.lines :
         LET l == composition.lines[i] IN
         /\ Len(l.tokens) >= 2
         /\ OpenBracket(l.content) > 1
         /\ \E k \in DOMAIN l.tokens[Len(l.tokens)].raw :
                l.tokens[Len(l.tokens)].raw[k] = " "

\* the raw lines of the text
RawLine(i) == SplitOn(text, "\n")[i]

\* the number of white space characters that follow the position k of the line
SpacesAfter(line, k) ==
    Cardinality({ e \in (k + 1)..Len(line) : \A m \in (k + 1)..e : IsSpace(line[m]) })

\* the length of the run of word characters that starts the line and is
\* followed by a colon, 0 when there is none
NameRun(line) ==
    IF \E k \in 1..(Len(line) - 1) :
           line[k + 1] = ":" /\ \A m \in 1..k : IsWordChar(line[m])
    THEN CHOOSE k \in 1..(Len(line) - 1) :
           line[k + 1] = ":" /\ \A m \in 1..k : IsWordChar(line[m])
    ELSE 0

\* C24: when the line starts with word characters, a colon and optional white
\* space and the name is, case-insensitively, a known instrument,
\* parseInstrumentPrefix returns the name in lower case, the line without the
\* prefix and the prefix length; otherwise piano, the whole line and 0; the
\* first prefixLength characters followed by content are the line
C24_PrefixKnownOrDefault ==
    ppc = "done" =>
        \A i \in DOMAIN composition.lines :
            LET l == composition.lines[i]
                n == NameRun(RawLine(i))
            IN /\ SubSeq(RawLine(i), 1, l.prefixLength) \o l.content = RawLine(i)
               /\ IF n > 0 /\ toLowerCase(SubSeq(RawLine(i), 1, n)) \in INSTRUMENTS
                  THEN /\ l.instrument = toLowerCase(SubSeq(RawLine(i), 1, n))
                       /\ l.prefixLength = n + 1 + SpacesAfter(RawLine(i), n + 1)
                  ELSE /\ l.instrument = PIANO
                       /\ l.prefixLength = 0
                       /\ l.content = RawLine(i)

\* whether the tokens are, in order, substrings of the content from the position
\* pos on, with nothing but spaces before, between and after them
RECURSIVE CoveredFrom(_, _, _)
CoveredFrom(c, pos, toks) ==
    IF toks = <<>> THEN \A m \in pos..Len(c) : c[m] = " "
    ELSE /\ \E st \in pos..Len(c) : c[st] # " "
         /\ LET st == CHOOSE k \in pos..Len(c) :
                          c[k] # " " /\ \A m \in pos..(k - 1) : c[m] = " "
                raw == Head(toks).raw
            IN /\ Len(raw) >= 1
               /\ st + Len(raw) - 1 <= Len(c)
               /\ SubSeq(c, st, st + Len(raw) - 1) = raw
               /\ CoveredFrom(c, st + Len(raw), Tail(toks))

\* C25: the tokens of a content are, in list order, contiguous substrings of it
\* that do not overlap, each token's raw text being the slice it was read from,
\* and every character outside them is a space; white space alone gives no
\* token
C25_TokensTileContent ==
    ppc = "done" =>
        \A i \in DOMAIN composition.lines :
            LET l == composition.lines[i] IN
            /\ IsBlank(l.content) => l.tokens = <<>>
            /\ CoveredFrom(l.content, 1, l.tokens)

\* a compiled line with two bracketed spans, two spaces apart
C25_Witness ==
    /\ ppc = "done"
    /\ \E i \in DOMAIN composition.lines :
         LET l == composition.lines[i] IN
         /\ Len(l.tokens) = 2
         /\ IsSpan(l.tokens[1].raw)
         /\ IsSpan(l.tokens[2].raw)
         /\ Len(l.content) > Len(l.tokens[1].raw) + Len(l.tokens[2].raw) + 1

\* C30: the instrument of every line, of every compiled event and every name
\* detectInstruments collects is an entry of the instrument registry
C30_InstrumentIsRegistered ==
    ppc = "done" =>
        /\ \A i \in DOMAIN composition.lines :
             /\ composition.lines[i].instrument \in INSTRUMENTS
             /\ \A n \in DOMAIN composition.lines[i].events :
                    composition.lines[i].events[n].instrument \in INSTRUMENTS
        /\ detectInstruments(INSTRUMENTS, text) \subseteq INSTRUMENTS


(***************************************************************************)
(* Properties of the page: volumes, stopping, the sampler, the text.       *)
(***************************************************************************)
\* whether every live instrument and every player has the default volume of
\* its name plus the offset of its name
VolumesFollow(offsets, vol) ==
    /\ \A n \in DOMAIN vol.inst :
           vol.inst[n] = DEFAULT_INSTRUMENT_DB(n) + OffsetOf(offsets, n)
    /\ \A n \in DOMAIN vol.player :
           vol.player[n] = DEFAULT_INSTRUMENT_DB(n) + OffsetOf(offsets, n)

\* C26: when a startPlayback call given volume offsets completes, and after
\* every setInstrumentVolume call, every live instrument has its default dB
\* plus the current user offset of its name, the instruments an earlier
\* startPlayback created included, also for offsets changed while stopped
C26_VolumesFollowOffsets ==
    [][((\E c \in CallIds : calls[c].pc # "done" /\ calls'[c].pc = "done")
          \/ (calls' = calls /\ userVolumeOffsets' # userVolumeOffsets))
       => VolumesFollow(userVolumeOffsets', volume')]_vars

\* C27: a startPlayback call that was suspended at an await when stopPlayback
\* ran does not begin playback when it resumes: it arms nothing and leaves the
\* transport as it is
C27_StopWinsOverStartInFlight ==
    [][\A c \in CallIds :
          (c \in stoppedInFlight /\ calls[c].pc # "done" /\ calls'[c].pc = "done")
              => (parts' = parts /\ transport' = transport)]_vars

\* C28: at most one piano sampler is ever created and connected to the piano
\* gain
C28_AtMostOnePianoSampler == samplers <= 1

\* C29: whenever isPlaying is true, the text of every armed part is the text of
\* the editor
C29_PlayingTextIsEditorText ==
    isPlaying =>
        \A k \in DOMAIN parts : calls[parts[k].call].text = resolveText(editorText)

====
